---- MODULE Spec2Model ----
(***************************************************************************)
(* Lane-runner game: the zustand game-state store (its three variants in   *)
(* src/fullscreen.ts), the Player component (src/components/World/         *)
(* Player.tsx) and the LevelManager simulation tick (src/components/World/ *)
(* LevelManager.tsx).                                                      *)
(*                                                                         *)
(* Numbers.  Speeds are in 1/1000 unit per second, positions in 1/1000     *)
(* world unit, frame deltas in milliseconds, speed multipliers in 1/10000. *)
(* Wall-clock time is abstracted: a timeout that is armed fires at some    *)
(* later moment, a timestamp is kept as "still in the future" or not.      *)
(***************************************************************************)
EXTENDS Integers, Sequences, FiniteSets, TLC

VARIABLES store, player, world, steps, lastOp

vars == <<store, player, world, steps, lastOp>>

----------------------------------------------------------------------------
(* Bounds of the exploration *)

\* number of operations explored from each initial state
MaxSteps == 3
\* cap of the score counter
MaxScore == 12000
\* the largest wave of spikes or aliens the planner's draws are explored for
MaxWave == 1
\* the distance (in thousandths) for which a due letter is followed
MaxWait == 10000

----------------------------------------------------------------------------
(* Program constants: types.ts *)

RUN_SPEED_BASE == 22500
LANE_WIDTH == 2200
SPAWN_DISTANCE == 120000
REMOVE_DISTANCE == 20000

GEMINI_TARGET == <<"G", "E", "M", "I", "N", "I">>
MAX_LEVEL == 3

Min(a, b) == IF a < b THEN a ELSE b
Max(a, b) == IF a > b THEN a ELSE b
Abs(a) == IF a < 0 THEN -a ELSE a

includes(seq, x) == \E k \in 1..Len(seq) : seq[k] = x

\* RUN_SPEED_BASE * (pct / 10000)
SpeedPart(tenThousandths) == (RUN_SPEED_BASE * tenThousandths) \div 10000

----------------------------------------------------------------------------
(* The store: one record holding the fields of the variant it was created  *)
(* as (a field the variant does not declare keeps its neutral value and is *)
(* never written), together with the module-level state of the store file  *)
(* (timeout handles, victorySpeedCache, speedEffect).                      *)

PowerUpTypesV1 == {"MAGNET", "SHIELD", "REVERSE", "SLOWMO", "SCOREX2"}
PowerUpTypesV2 == {"SHIELD", "MAGNET", "INVERT", "SCORE_X2", "SLOW", "BOOST"}
BuffTypesV3 == {"REVERSE", "MAGNET", "SPEED", "SCORE_X2"}

\* the clock and the armed timeouts with their due times (milliseconds), for
\* the runs in which time is followed; applied and before are the history
\* of the latest application of each power-up and of the one preceding it
\* (-1: none)
noClock ==
    [ now |-> 0,
      timeouts |-> {},
      slowUntil |-> 0,
      boostUntil |-> 0,
      speedTimer |-> 0,
      applied |-> [p \in PowerUpTypesV1 \cup PowerUpTypesV2 \cup {"IMMORTAL"} |-> -1],
      before |-> [p \in PowerUpTypesV1 \cup PowerUpTypesV2 \cup {"IMMORTAL"} |-> -1] ]

useStore(v) ==
    [ variant |-> v,
      status |-> "MENU",
      mode |-> IF v = 3 THEN "UNDEFINED" ELSE "STORY",
      score |-> 0,
      lives |-> 6,
      maxLives |-> 6,
      speed |-> 0,
      speedMultiplier |-> 10000,
      scoreMultiplier |-> 1,
      collectedLetters |-> << >>,
      level |-> 1,
      laneCount |-> 3,
      gemsCollected |-> 0,
      distance |-> 0,
      hasDoubleJump |-> FALSE,
      hasImmortality |-> FALSE,
      isImmortalityActive |-> FALSE,
      \* variant 1 buffs
      isShieldActive |-> FALSE,
      isMagnetActive |-> FALSE,
      isControlsReversed |-> FALSE,
      isSlowMoActive |-> FALSE,
      \* variant 2 buffs
      isControlsInverted |-> FALSE,
      shieldCharges |-> 0,
      \* variant 3
      isEndlessMode |-> FALSE,
      canContinueEndless |-> FALSE,
      buffActive |-> {},
      \* module-level state
      buffTimeouts |-> {},
      immortalityTimeouts |-> 0,
      victorySpeedCache |-> RUN_SPEED_BASE,
      slowOn |-> FALSE,
      boostOn |-> FALSE,
      speedTimer |-> {},
      clock |-> noClock ]

----------------------------------------------------------------------------
(* Store variant 1 (flags with one timeout per power-up type) *)

clearAllBuffTimers(s) == [s EXCEPT !.buffTimeouts = {}]

startGameV1(s) ==
    [clearAllBuffTimers(s) EXCEPT
        !.status = "PLAYING", !.mode = "STORY",
        !.score = 0, !.lives = 6, !.maxLives = 6, !.speed = RUN_SPEED_BASE,
        !.collectedLetters = << >>, !.level = 1, !.laneCount = 3,
        !.gemsCollected = 0, !.distance = 0,
        !.hasDoubleJump = FALSE, !.hasImmortality = FALSE,
        !.isImmortalityActive = FALSE,
        !.isShieldActive = FALSE, !.isMagnetActive = FALSE,
        !.isControlsReversed = FALSE, !.isSlowMoActive = FALSE,
        !.scoreMultiplier = 1]

restartGameV1(s) ==
    [clearAllBuffTimers(s) EXCEPT
        !.status = "PLAYING", !.mode = "STORY",
        !.score = 0, !.lives = 6, !.maxLives = 6, !.speed = RUN_SPEED_BASE,
        !.collectedLetters = << >>, !.level = 1, !.laneCount = 3,
        !.gemsCollected = 0, !.distance = 0,
        !.hasDoubleJump = FALSE, !.hasImmortality = FALSE,
        !.isImmortalityActive = FALSE,
        !.isShieldActive = FALSE, !.isMagnetActive = FALSE,
        !.isControlsReversed = FALSE, !.isSlowMoActive = FALSE,
        !.scoreMultiplier = 1]

\* mutant: immortality is not looked at
takeDamageV1_ignoresImmortality(s) ==
    IF s.isShieldActive THEN s
    ELSE IF s.lives > 1 THEN [s EXCEPT !.lives = s.lives - 1]
    ELSE [s EXCEPT !.lives = 0, !.status = "GAME_OVER", !.speed = 0]

takeDamageV1(s) ==
    IF s.isImmortalityActive \/ s.isShieldActive THEN s
    ELSE IF s.lives > 1 THEN [s EXCEPT !.lives = s.lives - 1]
    ELSE [s EXCEPT !.lives = 0, !.status = "GAME_OVER", !.speed = 0]

collectGemV1(s, value) ==
    [s EXCEPT !.score = s.score + value * s.scoreMultiplier,
              !.gemsCollected = s.gemsCollected + 1]

advanceLevelV1(s) ==
    [s EXCEPT !.level = s.level + 1,
              !.laneCount = Min(s.laneCount + 2, 9),
              !.status = "PLAYING",
              !.speed = s.speed + SpeedPart(4000),
              !.collectedLetters = << >>]

\* mutant: no membership check before the index is appended
collectLetterV1_noMembershipCheck(s, index) ==
    IF s.mode # "STORY" THEN s
    ELSE LET newLetters == Append(s.collectedLetters, index)
             nextSpeed == s.speed + SpeedPart(1000)
             s1 == [s EXCEPT !.collectedLetters = newLetters, !.speed = nextSpeed]
         IN  IF Len(newLetters) = Len(GEMINI_TARGET)
             THEN IF s.level < MAX_LEVEL
                  THEN advanceLevelV1(s1)
                  ELSE [s1 EXCEPT !.victorySpeedCache = nextSpeed,
                                  !.status = "VICTORY",
                                  !.speed = 0,
                                  !.score = s1.score + 5000]
             ELSE s1

collectLetterV1(s, index) ==
    IF s.mode # "STORY" THEN s
    ELSE IF includes(s.collectedLetters, index) THEN s
    ELSE LET newLetters == Append(s.collectedLetters, index)
             nextSpeed == s.speed + SpeedPart(1000)
             s1 == [s EXCEPT !.collectedLetters = newLetters, !.speed = nextSpeed]
         IN  IF Len(newLetters) = Len(GEMINI_TARGET)
             THEN IF s.level < MAX_LEVEL
                  THEN advanceLevelV1(s1)
                  ELSE [s1 EXCEPT !.victorySpeedCache = nextSpeed,
                                  !.status = "VICTORY",
                                  !.speed = 0,
                                  !.score = s1.score + 5000]
             ELSE s1

\* mutant: HEAL adds a life without the clamp to maxLives
buyItemBody_healUnclamped(s, type, cost) ==
    LET s1 == [s EXCEPT !.score = s.score - cost]
    IN  CASE type = "DOUBLE_JUMP" -> [s1 EXCEPT !.hasDoubleJump = TRUE]
          [] type = "MAX_LIFE" ->
                LET nextMax == Min(s.maxLives + 1, 6)
                    nextLives == Min(s.lives + 1, nextMax)
                IN  [s1 EXCEPT !.maxLives = nextMax, !.lives = nextLives]
          [] type = "HEAL" -> [s1 EXCEPT !.lives = s.lives + 1]
          [] type = "IMMORTAL" -> [s1 EXCEPT !.hasImmortality = TRUE]
          [] OTHER -> s1

buyItemBody(s, type, cost) ==
    LET s1 == [s EXCEPT !.score = s.score - cost]
    IN  CASE type = "DOUBLE_JUMP" -> [s1 EXCEPT !.hasDoubleJump = TRUE]
          [] type = "MAX_LIFE" ->
                LET nextMax == Min(s.maxLives + 1, 6)
                    nextLives == Min(s.lives + 1, nextMax)
                IN  [s1 EXCEPT !.maxLives = nextMax, !.lives = nextLives]
          [] type = "HEAL" -> [s1 EXCEPT !.lives = Min(s.lives + 1, s.maxLives)]
          [] type = "IMMORTAL" -> [s1 EXCEPT !.hasImmortality = TRUE]
          [] OTHER -> s1

\* mutant: the cap of MAX_LIFE is not looked at before the payment
buyItemV1_paysAtCap(s, type, cost) ==
    IF s.score >= cost THEN buyItemBody(s, type, cost)
    ELSE s

buyItemV1(s, type, cost) ==
    IF type = "MAX_LIFE" /\ s.maxLives >= 6 THEN s
    ELSE IF s.score >= cost THEN buyItemBody(s, type, cost)
    ELSE s

\* the boolean buyItem returns (the same in the three variants)
buyItemReturns(s, type, cost) ==
    IF type = "MAX_LIFE" /\ s.maxLives >= 6 THEN FALSE
    ELSE IF s.score >= cost THEN TRUE
    ELSE FALSE

\* mutant: the ability is not asked to be owned
activateImmortality_unowned(s) ==
    IF ~s.isImmortalityActive
    THEN [s EXCEPT !.isImmortalityActive = TRUE,
                   !.immortalityTimeouts = s.immortalityTimeouts + 1]
    ELSE s

activateImmortality(s) ==
    IF s.hasImmortality /\ ~s.isImmortalityActive
    THEN [s EXCEPT !.isImmortalityActive = TRUE,
                   !.immortalityTimeouts = s.immortalityTimeouts + 1]
    ELSE s

\* the callback of activateImmortality's setTimeout
immortalityTimeout(s) ==
    [s EXCEPT !.isImmortalityActive = FALSE,
              !.immortalityTimeouts = s.immortalityTimeouts - 1]

\* setBuff: cancel the type's pending timeout, enable, arm a new timeout
setBuff(s, p) ==
    LET on == CASE p = "MAGNET" -> [s EXCEPT !.isMagnetActive = TRUE]
                [] p = "SHIELD" -> [s EXCEPT !.isShieldActive = TRUE]
                [] p = "REVERSE" -> [s EXCEPT !.isControlsReversed = TRUE]
                [] p = "SLOWMO" -> [s EXCEPT !.isSlowMoActive = TRUE]
                [] p = "SCOREX2" -> [s EXCEPT !.scoreMultiplier = 2]
                [] OTHER -> s
    IN  [on EXCEPT !.buffTimeouts = s.buffTimeouts \cup {p}]

applyPowerUpV1(s, p) == IF p \in PowerUpTypesV1 THEN setBuff(s, p) ELSE s

\* the callback armed by setBuff
buffTimeoutV1(s, p) ==
    LET off == CASE p = "MAGNET" -> [s EXCEPT !.isMagnetActive = FALSE]
                 [] p = "SHIELD" -> [s EXCEPT !.isShieldActive = FALSE]
                 [] p = "REVERSE" -> [s EXCEPT !.isControlsReversed = FALSE]
                 [] p = "SLOWMO" -> [s EXCEPT !.isSlowMoActive = FALSE]
                 [] p = "SCOREX2" -> [s EXCEPT !.scoreMultiplier = 1]
                 [] OTHER -> s
    IN  [off EXCEPT !.buffTimeouts = s.buffTimeouts \ {p}]

startEndlessFromVictory(s) ==
    [clearAllBuffTimers(s) EXCEPT
        !.status = "PLAYING", !.mode = "ENDLESS",
        !.speed = Max(SpeedPart(16000), (s.victorySpeedCache * 11) \div 10),
        !.collectedLetters = << >>,
        !.level = MAX_LEVEL + 1,
        !.scoreMultiplier = 1,
        !.isShieldActive = FALSE, !.isMagnetActive = FALSE,
        !.isControlsReversed = FALSE, !.isSlowMoActive = FALSE]

----------------------------------------------------------------------------
(* Store variant 2 (shield charges, speedMultiplier driven by speedEffect) *)

\* startGame and restartGame leave the module-level timers and speedEffect
\* as they are
startGameV2(s) ==
    [s EXCEPT
        !.status = "PLAYING", !.mode = "STORY",
        !.score = 0, !.lives = 6, !.maxLives = 6,
        !.speed = RUN_SPEED_BASE, !.speedMultiplier = 10000,
        !.scoreMultiplier = 1,
        !.collectedLetters = << >>, !.level = 1, !.laneCount = 3,
        !.gemsCollected = 0, !.distance = 0,
        !.hasDoubleJump = FALSE, !.hasImmortality = FALSE,
        !.isImmortalityActive = FALSE,
        !.isControlsInverted = FALSE, !.isMagnetActive = FALSE,
        !.shieldCharges = 0]

restartGameV2(s) ==
    [s EXCEPT
        !.status = "PLAYING", !.mode = "STORY",
        !.score = 0, !.lives = 6, !.maxLives = 6,
        !.speed = RUN_SPEED_BASE, !.speedMultiplier = 10000,
        !.scoreMultiplier = 1,
        !.collectedLetters = << >>, !.level = 1, !.laneCount = 3,
        !.gemsCollected = 0, !.distance = 0,
        !.hasDoubleJump = FALSE, !.hasImmortality = FALSE,
        !.isImmortalityActive = FALSE,
        !.isControlsInverted = FALSE, !.isMagnetActive = FALSE,
        !.shieldCharges = 0]

\* mutant: the last life is lost without the status changing
takeDamageV2_keepsStatus(s) ==
    IF s.isImmortalityActive THEN s
    ELSE IF s.shieldCharges > 0
         THEN [s EXCEPT !.shieldCharges = Max(0, s.shieldCharges - 1)]
    ELSE IF s.lives > 1 THEN [s EXCEPT !.lives = s.lives - 1]
    ELSE [s EXCEPT !.lives = 0, !.speed = 0]

\* mutant: the last life is lost without stopping the run
takeDamageV2_keepsSpeed(s) ==
    IF s.isImmortalityActive THEN s
    ELSE IF s.shieldCharges > 0
         THEN [s EXCEPT !.shieldCharges = Max(0, s.shieldCharges - 1)]
    ELSE IF s.lives > 1 THEN [s EXCEPT !.lives = s.lives - 1]
    ELSE [s EXCEPT !.lives = 0, !.status = "GAME_OVER"]

takeDamageV2(s) ==
    IF s.isImmortalityActive THEN s
    ELSE IF s.shieldCharges > 0
         THEN [s EXCEPT !.shieldCharges = Max(0, s.shieldCharges - 1)]
    ELSE IF s.lives > 1 THEN [s EXCEPT !.lives = s.lives - 1]
    ELSE [s EXCEPT !.lives = 0, !.status = "GAME_OVER", !.speed = 0]

\* scoreMultiplier is 1 or 2, so Math.floor(amount * mult) is the product
addScoreV2(s, amount) == [s EXCEPT !.score = s.score + amount * s.scoreMultiplier]

collectGemV2(s, value) ==
    [s EXCEPT !.score = s.score + value * s.scoreMultiplier,
              !.gemsCollected = s.gemsCollected + 1]

advanceLevelV2(s) ==
    [s EXCEPT !.level = s.level + 1,
              !.laneCount = Min(s.laneCount + 2, 9),
              !.status = "PLAYING",
              !.speed = s.speed + SpeedPart(2500),
              !.collectedLetters = << >>]

\* mutant: a letter adds 10% of the base speed, as in variants 1 and 3
collectLetterV2_tenPercent(s, index) ==
    IF s.mode = "ENDLESS" THEN addScoreV2(s, 250)
    ELSE IF includes(s.collectedLetters, index) THEN s
    ELSE LET newLetters == Append(s.collectedLetters, index)
             nextSpeed == s.speed + SpeedPart(1000)
             s1 == [s EXCEPT !.collectedLetters = newLetters, !.speed = nextSpeed]
         IN  IF Len(newLetters) = Len(GEMINI_TARGET)
             THEN IF s.level < MAX_LEVEL
                  THEN advanceLevelV2(s1)
                  ELSE [s1 EXCEPT !.mode = "ENDLESS",
                                  !.status = "PLAYING",
                                  !.score = s1.score + 5000,
                                  !.collectedLetters = << >>]
             ELSE s1

\* mutant: no membership check before the index is appended
collectLetterV2_noMembershipCheck(s, index) ==
    IF s.mode = "ENDLESS" THEN addScoreV2(s, 250)
    ELSE LET newLetters == Append(s.collectedLetters, index)
             nextSpeed == s.speed + SpeedPart(600)
             s1 == [s EXCEPT !.collectedLetters = newLetters, !.speed = nextSpeed]
         IN  IF Len(newLetters) = Len(GEMINI_TARGET)
             THEN IF s.level < MAX_LEVEL
                  THEN advanceLevelV2(s1)
                  ELSE [s1 EXCEPT !.mode = "ENDLESS",
                                  !.status = "PLAYING",
                                  !.score = s1.score + 5000,
                                  !.collectedLetters = << >>]
             ELSE s1

collectLetterV2(s, index) ==
    IF s.mode = "ENDLESS" THEN addScoreV2(s, 250)
    ELSE IF includes(s.collectedLetters, index) THEN s
    ELSE LET newLetters == Append(s.collectedLetters, index)
             nextSpeed == s.speed + SpeedPart(600)
             s1 == [s EXCEPT !.collectedLetters = newLetters, !.speed = nextSpeed]
         IN  IF Len(newLetters) = Len(GEMINI_TARGET)
             THEN IF s.level < MAX_LEVEL
                  THEN advanceLevelV2(s1)
                  ELSE [s1 EXCEPT !.mode = "ENDLESS",
                                  !.status = "PLAYING",
                                  !.score = s1.score + 5000,
                                  !.collectedLetters = << >>]
             ELSE s1

\* mutant: the price is not compared with the score
buyItemV2_onCredit(s, type, cost) ==
    IF type = "MAX_LIFE" /\ s.maxLives >= 6 THEN s
    ELSE buyItemBody(s, type, cost)

buyItemV2(s, type, cost) ==
    IF type = "MAX_LIFE" /\ s.maxLives >= 6 THEN s
    ELSE IF s.score >= cost THEN buyItemBody(s, type, cost)
    ELSE s

\* speedEffect.slowUntil > now and speedEffect.boostUntil > now are slowOn
\* and boostOn; the timeout is armed for the earliest expiry of the effects
\* that are on (speedTimer holds them; empty when no timeout is armed)
recomputeSpeedMultiplier(s) ==
    LET m1 == IF s.boostOn THEN 12500 ELSE 10000
        m2 == IF s.slowOn THEN (m1 * 7500) \div 10000 ELSE m1
        mult == Max(5500, Min(14500, m2))
    IN  [s EXCEPT !.speedMultiplier = mult,
                  !.speedTimer = (IF s.slowOn THEN {"SLOW"} ELSE {})
                                 \cup (IF s.boostOn THEN {"BOOST"} ELSE {})]

applyPowerUpV2(s, type) ==
    CASE type = "SHIELD" -> [s EXCEPT !.shieldCharges = Min(2, s.shieldCharges + 1)]
      [] type = "MAGNET" -> [s EXCEPT !.isMagnetActive = TRUE,
                                      !.buffTimeouts = s.buffTimeouts \cup {"MAGNET"}]
      [] type = "INVERT" -> [s EXCEPT !.isControlsInverted = TRUE,
                                      !.buffTimeouts = s.buffTimeouts \cup {"INVERT"}]
      [] type = "SCORE_X2" -> [s EXCEPT !.scoreMultiplier = 2,
                                        !.buffTimeouts = s.buffTimeouts \cup {"SCORE_X2"}]
      [] type = "SLOW" -> recomputeSpeedMultiplier([s EXCEPT !.slowOn = TRUE])
      [] type = "BOOST" -> recomputeSpeedMultiplier([s EXCEPT !.boostOn = TRUE])
      [] OTHER -> s

\* the callbacks of magnetTimer, invertTimer and scoreTimer
buffTimeoutV2(s, p) ==
    LET off == CASE p = "MAGNET" -> [s EXCEPT !.isMagnetActive = FALSE]
                 [] p = "INVERT" -> [s EXCEPT !.isControlsInverted = FALSE]
                 [] p = "SCORE_X2" -> [s EXCEPT !.scoreMultiplier = 1]
                 [] OTHER -> s
    IN  [off EXCEPT !.buffTimeouts = s.buffTimeouts \ {p}]

setDistance(s, dist) == [s EXCEPT !.distance = dist]
setSpeed(s, speed) == [s EXCEPT !.speed = speed]

----------------------------------------------------------------------------
(* Store variant 3 (isEndlessMode, buffs as expiry timestamps; buffActive  *)
(* holds the buffs whose timestamp is still in the future)                 *)

startGameV3(s) ==
    [s EXCEPT
        !.status = "PLAYING",
        !.score = 0, !.lives = 6, !.maxLives = 6, !.speed = RUN_SPEED_BASE,
        !.collectedLetters = << >>, !.level = 1, !.laneCount = 3,
        !.gemsCollected = 0, !.distance = 0,
        !.hasDoubleJump = FALSE, !.hasImmortality = FALSE,
        !.isImmortalityActive = FALSE,
        !.isEndlessMode = FALSE, !.canContinueEndless = FALSE,
        !.buffActive = {}]

restartGameV3(s) ==
    [s EXCEPT
        !.status = "PLAYING",
        !.score = 0, !.lives = 6, !.maxLives = 6, !.speed = RUN_SPEED_BASE,
        !.collectedLetters = << >>, !.level = 1, !.laneCount = 3,
        !.gemsCollected = 0, !.distance = 0,
        !.hasDoubleJump = FALSE, !.hasImmortality = FALSE,
        !.isImmortalityActive = FALSE,
        !.isEndlessMode = FALSE, !.canContinueEndless = FALSE,
        !.buffActive = {}]

continueEndless(s) ==
    [s EXCEPT !.status = "PLAYING",
              !.isEndlessMode = TRUE,
              !.canContinueEndless = FALSE,
              !.collectedLetters = << >>,
              !.speed = Max(s.speed, SpeedPart(20000))]

takeDamageV3(s) ==
    IF s.isImmortalityActive THEN s
    ELSE IF s.lives > 1 THEN [s EXCEPT !.lives = s.lives - 1]
    ELSE [s EXCEPT !.lives = 0, !.status = "GAME_OVER", !.speed = 0]

isBuffActive(s, buff) == buff \in s.buffActive

applyBuff(s, buff) == [s EXCEPT !.buffActive = s.buffActive \cup {buff}]

collectGemV3(s, value) ==
    [s EXCEPT !.score = s.score + value * (IF isBuffActive(s, "SCORE_X2") THEN 2 ELSE 1),
              !.gemsCollected = s.gemsCollected + 1]

advanceLevelV3(s) ==
    [s EXCEPT !.level = s.level + 1,
              !.laneCount = Min(s.laneCount + 2, 9),
              !.status = "PLAYING",
              !.speed = s.speed + SpeedPart(4000),
              !.collectedLetters = << >>]

\* mutant: the last level advances like the others (level <= MAX_LEVEL)
collectLetterV3_offByOneLevel(s, index) ==
    IF s.isEndlessMode THEN s
    ELSE IF includes(s.collectedLetters, index) THEN s
    ELSE LET newLetters == Append(s.collectedLetters, index)
             nextSpeed == s.speed + SpeedPart(1000)
             s1 == [s EXCEPT !.collectedLetters = newLetters, !.speed = nextSpeed]
         IN  IF Len(newLetters) = Len(GEMINI_TARGET)
             THEN IF s.level <= MAX_LEVEL
                  THEN advanceLevelV3(s1)
                  ELSE [s1 EXCEPT !.status = "VICTORY",
                                  !.score = s1.score + 5000,
                                  !.canContinueEndless = TRUE]
             ELSE s1

collectLetterV3(s, index) ==
    IF s.isEndlessMode THEN s
    ELSE IF includes(s.collectedLetters, index) THEN s
    ELSE LET newLetters == Append(s.collectedLetters, index)
             nextSpeed == s.speed + SpeedPart(1000)
             s1 == [s EXCEPT !.collectedLetters = newLetters, !.speed = nextSpeed]
         IN  IF Len(newLetters) = Len(GEMINI_TARGET)
             THEN IF s.level < MAX_LEVEL
                  THEN advanceLevelV3(s1)
                  ELSE [s1 EXCEPT !.status = "VICTORY",
                                  !.score = s1.score + 5000,
                                  !.canContinueEndless = TRUE]
             ELSE s1

buyItemV3(s, type, cost) ==
    IF type = "MAX_LIFE" /\ s.maxLives >= 6 THEN s
    ELSE IF s.score < cost THEN s
    ELSE buyItemBody(s, type, cost)

----------------------------------------------------------------------------
(* The store operations of the variant the store was created as *)

startGame(s) ==
    CASE s.variant = 1 -> startGameV1(s)
      [] s.variant = 2 -> startGameV2(s)
      [] OTHER -> startGameV3(s)

restartGame(s) ==
    CASE s.variant = 1 -> restartGameV1(s)
      [] s.variant = 2 -> restartGameV2(s)
      [] OTHER -> restartGameV3(s)

takeDamage(s) ==
    CASE s.variant = 1 -> takeDamageV1(s)
      [] s.variant = 2 -> takeDamageV2(s)
      [] OTHER -> takeDamageV3(s)

collectGem(s, value) ==
    CASE s.variant = 1 -> collectGemV1(s, value)
      [] s.variant = 2 -> collectGemV2(s, value)
      [] OTHER -> collectGemV3(s, value)

collectLetter(s, index) ==
    CASE s.variant = 1 -> collectLetterV1(s, index)
      [] s.variant = 2 -> collectLetterV2(s, index)
      [] OTHER -> collectLetterV3(s, index)

buyItem(s, type, cost) ==
    CASE s.variant = 1 -> buyItemV1(s, type, cost)
      [] s.variant = 2 -> buyItemV2(s, type, cost)
      [] OTHER -> buyItemV3(s, type, cost)

\* applyPowerUp of variants 1 and 2, applyBuff of variant 3
applyPowerUp(s, p) ==
    CASE s.variant = 1 -> applyPowerUpV1(s, p)
      [] s.variant = 2 -> applyPowerUpV2(s, p)
      [] OTHER -> applyBuff(s, p)

\* mutant: the shop is not opened
openShop_noop(s) == s

openShop(s) == [s EXCEPT !.status = "SHOP"]
closeShop(s) == [s EXCEPT !.status = "PLAYING"]

PowerUps(s) ==
    CASE s.variant = 1 -> PowerUpTypesV1
      [] s.variant = 2 -> PowerUpTypesV2
      [] OTHER -> BuffTypesV3

----------------------------------------------------------------------------
(* The timeouts of variants 1 and 2 with their due times *)

\* the ms argument of setBuff and of the setTimeout calls of applyPowerUp
BuffMs(p) ==
    CASE p = "MAGNET" -> 6500
      [] p = "SHIELD" -> 5200
      [] p = "REVERSE" -> 7500
      [] p = "SLOWMO" -> 4200
      [] p = "SCOREX2" -> 8000
      [] p = "INVERT" -> 4500
      [] p = "SCORE_X2" -> 6500
      [] p = "SLOW" -> 5200
      [] p = "BOOST" -> 4200
      [] OTHER -> 0

\* mutant: the pending timeout of the type is left armed
armTimeout_keepsEarlier(timeouts, p, due) == timeouts \cup { [p |-> p, due |-> due] }

\* clearTimeout of the type's pending timeout, then setTimeout
armTimeout(timeouts, p, due) ==
    { t \in timeouts : t.p # p } \cup { [p |-> p, due |-> due] }

\* the rescheduling at the end of recomputeSpeedMultiplier: 10 ms after the
\* earliest expiry still ahead, or no timeout
reschedule(s) ==
    LET c == s.clock
        slowOn == c.slowUntil > c.now
        boostOn == c.boostUntil > c.now
        next == IF slowOn /\ boostOn THEN Min(c.slowUntil, c.boostUntil)
                ELSE IF slowOn THEN c.slowUntil ELSE c.boostUntil
    IN  [s EXCEPT !.clock.speedTimer =
            IF slowOn \/ boostOn THEN c.now + Max(0, next - c.now) + 10 ELSE 0]

\* applyPowerUp at the time of the clock: setBuff of variant 1 and the
\* magnet, invert and score cases of variant 2 arm a timeout of their own
applyPowerUpAt(s, p) ==
    LET c == s.clock
    IN  IF s.variant = 1 \/ p \in {"MAGNET", "INVERT", "SCORE_X2"}
        THEN [applyPowerUp(s, p) EXCEPT
                 !.clock.timeouts = armTimeout(c.timeouts, p, c.now + BuffMs(p))]
        ELSE IF s.variant = 2 /\ p = "SLOW"
        THEN reschedule([applyPowerUp(s, p) EXCEPT
                 !.clock.slowUntil = Max(c.slowUntil, c.now + BuffMs(p))])
        ELSE IF s.variant = 2 /\ p = "BOOST"
        THEN reschedule([applyPowerUp(s, p) EXCEPT
                 !.clock.boostUntil = Max(c.boostUntil, c.now + BuffMs(p))])
        ELSE applyPowerUp(s, p)

\* activateImmortality at the time of the clock: the timeout of 5000 ms is
\* armed beside the ones already pending
activateImmortalityAt(s) ==
    LET s1 == activateImmortality(s)
    IN  IF s1 = s THEN s
        ELSE [s1 EXCEPT !.clock.timeouts =
                 s.clock.timeouts \cup { [p |-> "IMMORTAL", due |-> s.clock.now + 5000] },
                        !.clock.applied["IMMORTAL"] = s.clock.now]

\* the times ahead of the clock at which something is due: armed timeouts
\* and expiry timestamps
Ahead(s) ==
    LET c == s.clock
    IN  { due \in { t.due : t \in c.timeouts } \cup {c.speedTimer, c.slowUntil, c.boostUntil} :
            due > c.now }

\* the armed timeouts whose time has come
Due(s) ==
    { t \in s.clock.timeouts : t.due <= s.clock.now }

speedTimerDue(s) == s.clock.speedTimer # 0 /\ s.clock.speedTimer <= s.clock.now

----------------------------------------------------------------------------
(* HUD: the shop catalogue *)

SHOP_ITEMS == { [id |-> "DOUBLE_JUMP", cost |-> 1000],
                [id |-> "MAX_LIFE", cost |-> 1500],
                [id |-> "HEAL", cost |-> 1000],
                [id |-> "IMMORTAL", cost |-> 3000] }

----------------------------------------------------------------------------
(* Player component: the state it keeps in refs and React state *)

GRAVITY == 50000
JUMP_FORCE == 16000

PlayerInit ==
    [ lane |-> 0, x |-> 0, y |-> 0,
      isJumping |-> FALSE, velocityY |-> 0, jumpsPerformed |-> 0,
      isInvincible |-> FALSE, lastDamageTime |-> 0,
      pointerDown |-> FALSE, jumpTriggered |-> FALSE, startX |-> 0, startY |-> 0 ]

\* checkHit, the listener of 'player-hit'.  r is the store as of the render
\* whose closure the listener holds, s the store the call acts on.
\* (lastDamageTime is Date.now(), the clock of the store's record)
\* mutant: the post-hit window is not looked at
checkHit_noWindow(r, s, pl) ==
    IF r.isImmortalityActive \/ r.isShieldActive
    THEN [store |-> s, player |-> pl, called |-> FALSE]
    ELSE [store |-> takeDamage(s),
          player |-> [pl EXCEPT !.isInvincible = TRUE, !.lastDamageTime = s.clock.now],
          called |-> TRUE]

checkHit(r, s, pl) ==
    IF pl.isInvincible \/ r.isImmortalityActive \/ r.isShieldActive
    THEN [store |-> s, player |-> pl, called |-> FALSE]
    ELSE [store |-> takeDamage(s),
          player |-> [pl EXCEPT !.isInvincible = TRUE, !.lastDamageTime = s.clock.now],
          called |-> TRUE]

\* mutant: the new lane is not clamped
moveLane_unclamped(pl, r, dir) ==
    LET realDir == IF r.isControlsReversed THEN -dir ELSE dir
    IN  [pl EXCEPT !.lane = pl.lane + realDir]

moveLane(pl, r, dir) ==
    LET maxLane == r.laneCount \div 2
        realDir == IF r.isControlsReversed THEN -dir ELSE dir
    IN  [pl EXCEPT !.lane = Max(Min(pl.lane + realDir, maxLane), -maxLane)]

\* mutant: a jump in the air is always accepted
triggerJump_unbounded(pl, r) ==
    IF ~pl.isJumping
    THEN [pl EXCEPT !.isJumping = TRUE, !.jumpsPerformed = 1, !.velocityY = JUMP_FORCE]
    ELSE [pl EXCEPT !.jumpsPerformed = pl.jumpsPerformed + 1, !.velocityY = JUMP_FORCE]

triggerJump(pl, r) ==
    LET maxJumps == IF r.hasDoubleJump THEN 2 ELSE 1
    IN  IF ~pl.isJumping
        THEN [pl EXCEPT !.isJumping = TRUE, !.jumpsPerformed = 1, !.velocityY = JUMP_FORCE]
        ELSE IF pl.jumpsPerformed < maxJumps
        THEN [pl EXCEPT !.jumpsPerformed = pl.jumpsPerformed + 1, !.velocityY = JUMP_FORCE]
        ELSE pl

----------------------------------------------------------------------------
(* LevelManager component: the state it keeps in refs *)

BASE_LETTER_INTERVAL == 150000

\* what the planner of the last tick did (kept for the properties, as the
\* trace of the loop is): no pass yet
noPlan == [ran |-> FALSE, objects |-> << >>, furthestZ |-> 0, minGap |-> 0,
           spawnZ |-> 0, letterDue |-> FALSE, level |-> 0,
           collectedLetters |-> << >>, nextLetterDistance |-> 0]

WorldInit ==
    [ objects |-> << >>,
      distanceTraveled |-> 0,
      nextLetterDistance |-> BASE_LETTER_INTERVAL,
      nextPortalDistance |-> 450000,
      nextRampDistance |-> 80000,
      prevStatus |-> "MENU", prevLevel |-> 1, prevMode |-> "STORY",
      nextId |-> 1,
      trace |-> << >>,
      plan |-> noPlan ]

----------------------------------------------------------------------------
(* LevelManager useFrame: one entity of the registry.  Positions are in    *)
(* 1/1000 unit, times in ms.                                               *)

OBSTACLE_HEIGHT == 1600
MISSILE_SPEED == 30000

\* a * n / d, rounded toward zero
MulDiv(a, n, d) == IF a >= 0 THEN (a * n) \div d ELSE -(((-a) * n) \div d)

\* mutant: the interval grows by half the base interval per level
getLetterInterval_linear(level) ==
    BASE_LETTER_INTERVAL + (BASE_LETTER_INTERVAL \div 2) * Max(0, level - 1)

RECURSIVE getLetterInterval(_)
getLetterInterval(level) ==
    IF level <= 1 THEN BASE_LETTER_INTERVAL
    ELSE (getLetterInterval(level - 1) * 3) \div 2

GameObject(id, type, x, y, z) ==
    [ id |-> id, type |-> type, x |-> x, y |-> y, z |-> z, active |-> TRUE,
      hasFired |-> FALSE, targetIndex |-> -1, points |-> 0, powerUpType |-> "",
      effects |-> 0 ]

isDamageSource(obj) == obj.type \in {"OBSTACLE", "ALIEN", "MISSILE"}

isPickup(obj) == obj.type \in {"GEM", "LETTER", "POWERUP"}

\* mutant: the zone is tested at the new position only
inZZone_pointTest(prevZ, newZ, playerZ) ==
    newZ < playerZ + 2000 /\ newZ > playerZ - 2000

\* swept test: the path [prevZ, newZ] overlaps the player's zone
inZZone(prevZ, newZ, playerZ) ==
    prevZ < playerZ + 2000 /\ newZ > playerZ - 2000

\* mutant: every damage source is tested as a spike
isHit_allAsObstacle(obj, playerY) ==
    playerY < OBSTACLE_HEIGHT /\ playerY + 1800 > 0

\* vertical overlap of a damage source with the player
isHit(obj, playerY) ==
    LET objBottom == CASE obj.type = "OBSTACLE" -> 0
                       [] obj.type = "MISSILE" -> 500
                       [] OTHER -> obj.y - 500
        objTop == CASE obj.type = "OBSTACLE" -> OBSTACLE_HEIGHT
                    [] obj.type = "MISSILE" -> 1500
                    [] OTHER -> obj.y + 500
    IN  playerY < objTop /\ playerY + 1800 > objBottom

\* the store call a collected pickup makes
collectItem(s, obj) ==
    CASE obj.type = "GEM" -> collectGem(s, IF obj.points = 0 THEN 50 ELSE obj.points)
      [] obj.type = "LETTER" /\ obj.targetIndex >= 0 -> collectLetter(s, obj.targetIndex)
      [] obj.type = "POWERUP" /\ obj.powerUpType # "" -> applyPowerUp(s, obj.powerUpType)
      [] OTHER -> s

\* The body of the loop over the registry, in its three parts.  r is the
\* store of the render the frame callback closes over; px, py the player's
\* position.

\* mutant: the alien's one-shot flag is not looked at
moveObject_refires(obj, r, safeDelta, dist, px) ==
    LET moveAmount == IF obj.type = "MISSILE"
                      THEN dist + (MISSILE_SPEED * safeDelta) \div 1000
                      ELSE dist
        newZ == obj.z + moveAmount
        pulled == r.isMagnetActive /\ obj.active /\ isPickup(obj) /\ Abs(newZ) < 28000
    IN  [ prevZ |-> obj.z,
          newZ |-> newZ,
          x |-> IF pulled THEN obj.x + MulDiv(px - obj.x, safeDelta * 35, 10000) ELSE obj.x,
          fires |-> obj.type = "ALIEN" /\ obj.active /\ newZ > -90000 ]

\* movement, magnet pull and the alien's decision to fire
moveObject(obj, r, safeDelta, dist, px) ==
    LET moveAmount == IF obj.type = "MISSILE"
                      THEN dist + (MISSILE_SPEED * safeDelta) \div 1000
                      ELSE dist
        newZ == obj.z + moveAmount
        pulled == r.isMagnetActive /\ obj.active /\ isPickup(obj) /\ Abs(newZ) < 28000
    IN  [ prevZ |-> obj.z,
          newZ |-> newZ,
          x |-> IF pulled THEN obj.x + MulDiv(px - obj.x, safeDelta * 35, 10000) ELSE obj.x,
          fires |-> obj.type = "ALIEN" /\ obj.active /\ ~obj.hasFired /\ newZ > -90000 ]

\* mutant: the collision block does not look at the active flag
collisionEffect_ignoresActive(obj, m, r, px, py) ==
    LET dxThreshold == IF isDamageSource(obj) THEN 900
                       ELSE IF r.isMagnetActive THEN 2100 ELSE 900
    IN  IF obj.type = "SHOP_PORTAL"
        THEN IF Abs(m.newZ) < 2000 THEN "portal" ELSE "none"
        ELSE IF inZZone(m.prevZ, m.newZ, 0) /\ Abs(m.x - px) < dxThreshold
             THEN IF isDamageSource(obj)
                  THEN IF isHit(obj, py) THEN "hit" ELSE "none"
                  ELSE IF Abs(obj.y - py) < 2800 THEN "collect" ELSE "none"
        ELSE "none"

\* the collision block: what the entity at its new position m triggers
collisionEffect(obj, m, r, px, py) ==
    LET dxThreshold == IF isDamageSource(obj) THEN 900
                       ELSE IF r.isMagnetActive THEN 2100 ELSE 900
    IN  IF ~obj.active THEN "none"
        ELSE IF obj.type = "SHOP_PORTAL"
             THEN IF Abs(m.newZ) < 2000 THEN "portal" ELSE "none"
        ELSE IF inZZone(m.prevZ, m.newZ, 0) /\ Abs(m.x - px) < dxThreshold
             THEN IF isDamageSource(obj)
                  THEN IF isHit(obj, py) THEN "hit" ELSE "none"
                  ELSE IF Abs(obj.y - py) < 2800 THEN "collect" ELSE "none"
        ELSE "none"

\* mutant: nothing is dropped for its position
keepObject_noRemoval(effect, newZ) ==
    effect # "portal"

\* mutant: whatever was deactivated is dropped from the kept entities
keepObject_dropsInactive(effect, newZ) ==
    effect = "none" /\ ~(newZ > REMOVE_DISTANCE)

\* the keep flag: cleared by a portal entry and past the removal threshold
keepObject(effect, newZ) ==
    effect # "portal" /\ ~(newZ > REMOVE_DISTANCE)

\* the calls the effect makes, the keep decision and the log entry.  acc
\* carries the live store, the player's refs, the kept entities, the
\* missiles spawned and the log of the tick; h is what the hit listener does.
applyEffect(acc, obj, m, effect, h, px, py) ==
    LET keep == keepObject(effect, m.newZ)
        obj2 == [obj EXCEPT !.z = m.newZ, !.x = m.x,
                            !.hasFired = obj.hasFired \/ m.fires,
                            !.active = obj.active /\ effect = "none",
                            !.effects = obj.effects + (IF effect = "none" THEN 0 ELSE 1)]
        store2 == CASE effect = "portal" -> openShop(acc.store)
                    [] effect = "hit" -> h.store
                    [] effect = "collect" -> collectItem(acc.store, obj)
                    [] OTHER -> acc.store
    IN  [ store |-> store2,
          player |-> IF effect = "hit" THEN h.player ELSE acc.player,
          kept |-> IF keep THEN Append(acc.kept, obj2) ELSE acc.kept,
          newSpawns |-> IF m.fires
                        THEN Append(acc.newSpawns,
                                    GameObject(acc.nextId, "MISSILE", m.x, 1000, m.newZ + 2000))
                        ELSE acc.newSpawns,
          nextId |-> IF m.fires THEN acc.nextId + 1 ELSE acc.nextId,
          trace |-> Append(acc.trace,
                     [ id |-> obj.id, type |-> obj.type,
                       prevZ |-> m.prevZ, newZ |-> m.newZ,
                       dx |-> Abs(m.x - px), y |-> obj.y, playerY |-> py,
                       wasActive |-> obj.active,
                       hadFired |-> obj.hasFired,
                       x |-> m.x,
                       zone |-> inZZone(m.prevZ, m.newZ, 0),
                       effect |-> effect,
                       effects |-> obj.effects + (IF effect = "none" THEN 0 ELSE 1),
                       signals |-> IF effect = "hit" THEN 1 ELSE 0,
                       damaged |-> effect = "hit" /\ h.called,
                       fired |-> m.fires,
                       active |-> obj.active /\ effect = "none",
                       kept |-> keep,
                       statusBefore |-> acc.store.status,
                       status |-> IF effect = "portal" THEN "SHOP"
                                  ELSE IF effect = "hit" THEN h.store.status
                                  ELSE IF effect = "collect"
                                       THEN collectItem(acc.store, obj).status
                                  ELSE acc.store.status ]) ]

collide(acc, obj, m, r, px, py) ==
    applyEffect(acc, obj, m, collisionEffect(obj, m, r, px, py),
                checkHit(r, acc.store, acc.player), px, py)

processObject(acc, obj, r, safeDelta, dist, px, py) ==
    collide(acc, obj, moveObject(obj, r, safeDelta, dist, px), r, px, py)

\* mutant: the loop goes through the registry from the newest entity
RECURSIVE processObjects_newestFirst(_, _, _, _, _, _, _)
processObjects_newestFirst(acc, objs, r, safeDelta, dist, px, py) ==
    IF objs = << >> THEN acc
    ELSE LET a == processObject(acc, objs[Len(objs)], r, safeDelta, dist, px, py)
         IN  IF Len(a.trace) > 0
             THEN processObjects_newestFirst(a, SubSeq(objs, 1, Len(objs) - 1),
                                             r, safeDelta, dist, px, py)
             ELSE a

RECURSIVE processObjects(_, _, _, _, _, _, _)
processObjects(acc, objs, r, safeDelta, dist, px, py) ==
    IF objs = << >> THEN acc
    ELSE CHOOSE t \in { IF Len(a.trace) > 0
                        THEN processObjects(a, Tail(objs), r, safeDelta, dist, px, py)
                        ELSE a :
                        a \in { processObject(acc, Head(objs), r, safeDelta, dist, px, py) } } :
            TRUE

----------------------------------------------------------------------------
(* LevelManager useFrame: the spawn planner.  Every Math.random() outcome   *)
(* is an input: the record `c' holds the branch taken, the lanes drawn,     *)
(* the top-gem draws, the power-up type and the letter index.               *)

Lanes(laneCount) == (-(laneCount \div 2)) .. (laneCount \div 2)

\* mutant: each lane of a wave is drawn on its own
shuffled_withRepeats(laneCount, k) == [1..k -> Lanes(laneCount)]

\* the first k lanes of a shuffled lane list: any k distinct lanes, in order
shuffled(laneCount, k) ==
    { q \in [1..k -> Lanes(laneCount)] : \A i, j \in 1..k : i # j => q[i] # q[j] }

noSpawn == [kind |-> "none", lanes |-> << >>, tops |-> << >>, pType |-> "", index |-> -1]

furthestZ(keptObjects) ==
    LET staticZ == { keptObjects[i].z : i \in { j \in 1..Len(keptObjects) :
                                               keptObjects[j].type # "MISSILE" } }
    IN  IF staticZ = {} THEN -20000
        ELSE CHOOSE z \in staticZ : \A y \in staticZ : z <= y

isLetterDue(r, w) == r.mode = "STORY" /\ w.distanceTraveled >= w.nextLetterDistance

availableIndices(r) == { i \in 0..5 : ~includes(r.collectedLetters, i) }

\* mutant: the due letter is left to a later tick
letterChoices_skips(r) == { noSpawn }

\* the draws of the letter branch: a lane, and an index not collected (a
\* plain gem when there is none)
letterChoices(r) ==
    IF availableIndices(r) # {}
    THEN { [noSpawn EXCEPT !.kind = "letter", !.lanes = <<lane>>, !.index = i] :
              lane \in Lanes(r.laneCount), i \in availableIndices(r) }
    ELSE { [noSpawn EXCEPT !.kind = "gem", !.lanes = <<lane>>] :
              lane \in Lanes(r.laneCount) }

\* mutant: aliens at every level
spawnAlien_anyLevel(r) == TRUE

\* the condition under which the obstacle draw may turn out an alien wave
spawnAlien(r) == r.level >= 2

\* the outcomes of the random draws of one pass of the planner, with waves
\* of up to maxWave spikes or aliens
spawnChoicesUpTo(r, w, keptObjects, maxWave) ==
    LET n == Cardinality(Lanes(r.laneCount))
        one(kind) == { [noSpawn EXCEPT !.kind = kind, !.lanes = <<lane>>] :
                          lane \in Lanes(r.laneCount) }
    IN  IF ~(furthestZ(keptObjects) > -SPAWN_DISTANCE) THEN { noSpawn }
        ELSE IF isLetterDue(r, w)
        THEN letterChoices(r)
        ELSE { noSpawn }
             \cup { [c EXCEPT !.pType = pType] : c \in one("powerup"), pType \in PowerUpTypesV2 }
             \cup one("gem")
             \cup (IF spawnAlien(r)
                   THEN { [noSpawn EXCEPT !.kind = "alien", !.lanes = q] :
                             q \in UNION { shuffled(r.laneCount, k) :
                                              k \in {1, Min(2, n)} \cap 1..maxWave } }
                   ELSE {})
             \cup UNION { { [noSpawn EXCEPT !.kind = "spikes", !.lanes = q, !.tops = tops] :
                               q \in shuffled(r.laneCount, k), tops \in [1..k -> BOOLEAN] } :
                          k \in {1, Min(2, n), Min(3, n)} \cap 1..maxWave }

spawnChoices(r, w, keptObjects) == spawnChoicesUpTo(r, w, keptObjects, MaxWave)

RECURSIVE spikes(_, _, _, _)
spikes(lanes, tops, spawnZ, id) ==
    IF lanes = << >> THEN << >>
    ELSE LET laneX == Head(lanes) * LANE_WIDTH
             obstacle == GameObject(id, "OBSTACLE", laneX, OBSTACLE_HEIGHT \div 2, spawnZ)
             gem == [GameObject(id + 1, "GEM", laneX, OBSTACLE_HEIGHT + 1000, spawnZ)
                        EXCEPT !.points = 100]
         IN  IF Head(tops)
             THEN <<obstacle, gem>> \o spikes(Tail(lanes), Tail(tops), spawnZ, id + 2)
             ELSE <<obstacle>> \o spikes(Tail(lanes), Tail(tops), spawnZ, id + 1)

\* mutant: the portal offer is not held back in Story mode
portalDue_anyMode(r, w, keptObjects) ==
    /\ w.distanceTraveled >= w.nextPortalDistance
    /\ ~\E i \in 1..Len(keptObjects) :
           keptObjects[i].type = "SHOP_PORTAL" /\ keptObjects[i].active

\* the endless portal offer
portalDue(r, w, keptObjects) ==
    /\ r.mode = "ENDLESS"
    /\ w.distanceTraveled >= w.nextPortalDistance
    /\ ~\E i \in 1..Len(keptObjects) :
           keptObjects[i].type = "SHOP_PORTAL" /\ keptObjects[i].active

\* mutant: the wave is put one gap behind the furthest entity, wherever
\* that is
spawnZ_noHorizon(furthest, minGap) == furthest - minGap

\* where the planner puts what it creates
spawnZ(furthest, minGap) == Min(furthest - minGap, -SPAWN_DISTANCE)

\* the entities one pass of the planner pushes, for the draws c
spawned(r, w, keptObjects, effectiveSpeed, c, id) ==
    LET endless == r.mode = "ENDLESS"
        baseGap == IF endless THEN 13000 ELSE 14000
        gapFactor == IF endless THEN 22 ELSE 26
        minGap == Min(30000, baseGap + (effectiveSpeed * gapFactor) \div 100)
        at == spawnZ(furthestZ(keptObjects), minGap)
        portal == IF portalDue(r, w, keptObjects)
                  THEN << GameObject(id, "SHOP_PORTAL", 0, 0, at - 35000) >>
                  ELSE << >>
        id2 == id + Len(portal)
        laneX == IF c.lanes = << >> THEN 0 ELSE c.lanes[1] * LANE_WIDTH
        wave ==
            CASE c.kind = "letter" ->
                    << [GameObject(id2, "LETTER", laneX, 1000, at)
                           EXCEPT !.targetIndex = c.index] >>
              [] c.kind = "gem" ->
                    << [GameObject(id2, "GEM", laneX, 1200, at) EXCEPT !.points = 50] >>
              [] c.kind = "powerup" ->
                    << [GameObject(id2, "POWERUP", laneX, 1200, at)
                           EXCEPT !.powerUpType = c.pType] >>
              [] c.kind = "alien" ->
                    [k \in 1..Len(c.lanes) |->
                        GameObject(id2 + k - 1, "ALIEN", c.lanes[k] * LANE_WIDTH, 1500, at)]
              [] c.kind = "spikes" -> spikes(c.lanes, c.tops, at, id2)
              [] OTHER -> << >>
    IN  IF ~(furthestZ(keptObjects) > -SPAWN_DISTANCE)
        THEN [objects |-> << >>, world |-> w, spawnZ |-> 0, minGap |-> minGap]
        ELSE [ objects |-> portal \o wave,
               minGap |-> minGap,
               world |-> [w EXCEPT
                   !.nextPortalDistance = IF portalDue(r, w, keptObjects)
                                          THEN @ + 520000 ELSE @,
                   !.nextLetterDistance = IF c.kind = "letter"
                                          THEN @ + getLetterInterval(r.level) ELSE @],
               spawnZ |-> at ]

----------------------------------------------------------------------------
(* One animation frame: Player useFrame, then LevelManager useFrame        *)

\* the frame rates explored: 16 ms and 50 ms between frames
Deltas == {16, 50}

\* Player useFrame.  r is the store of the render; windowPassed says whether
\* more than 1500 ms have passed since the last damage.
playerFrame(pl, r, delta, windowPassed) ==
    IF r.status \notin {"PLAYING", "SHOP"} THEN pl
    ELSE LET targetX == pl.lane * LANE_WIDTH
             x == pl.x + MulDiv(targetX - pl.x, delta * 18, 1000)
             y == pl.y + MulDiv(pl.velocityY, delta, 1000)
             landed == pl.isJumping /\ y <= 0
             p1 == [pl EXCEPT !.x = x]
             p2 == IF ~pl.isJumping THEN p1
                   ELSE IF landed
                        THEN [p1 EXCEPT !.y = 0, !.isJumping = FALSE,
                                        !.jumpsPerformed = 0, !.velocityY = 0]
                        ELSE [p1 EXCEPT !.y = y,
                                        !.velocityY = pl.velocityY - (GRAVITY * delta) \div 1000]
         IN  IF pl.isInvincible /\ windowPassed
             THEN [p2 EXCEPT !.isInvincible = FALSE]
             ELSE p2

\* the guard of LevelManager's frame callback
\* mutant: the loop runs whatever the status
ticking_always(r) == TRUE

ticking(r) == r.status = "PLAYING"

\* the state of the loop before the first entity
loopStart(s, pl, w) ==
    [ store |-> s, player |-> pl, kept |-> << >>, newSpawns |-> << >>,
      nextId |-> w.nextId, trace |-> << >> ]

\* the frame's state after the loop acc: newSpawns appended to the kept ones
loopEnd(acc, w, distance, ramp, effectiveSpeed) ==
    [ store |-> acc.store,
      player |-> acc.player,
      effectiveSpeed |-> effectiveSpeed,
      world |-> [w EXCEPT !.distanceTraveled = distance,
                          !.nextRampDistance = IF ramp THEN @ + 80000 ELSE @,
                          !.objects = acc.kept \o acc.newSpawns,
                          !.nextId = acc.nextId,
                          !.trace = acc.trace] ]

\* mutant: the ramp is not held back in Story mode
rampDue_anyMode(r, w, distance) == distance >= w.nextRampDistance

\* the endless ramp: its condition and the speed it sets
rampDue(r, w, distance) == r.mode = "ENDLESS" /\ distance >= w.nextRampDistance

rampSpeed(speed) == Min(RUN_SPEED_BASE * 3, speed + SpeedPart(300))

\* LevelManager useFrame up to the end of the loop over the registry
frameLoop(s, pl, w, delta) ==
    LET safeDelta == Min(delta, 50)
        effectiveSpeed == (s.speed * s.speedMultiplier) \div 10000
        dist == (effectiveSpeed * safeDelta) \div 1000
        distance == w.distanceTraveled + dist
        ramp == rampDue(s, w, distance)
    IN  loopEnd(processObjects(
                    loopStart(IF ramp THEN setSpeed(s, rampSpeed(s.speed)) ELSE s, pl, w),
                    w.objects, s, safeDelta, dist, pl.x, pl.y),
                w, distance, ramp, effectiveSpeed)

\* the rest of LevelManager useFrame: the planner, for the draws c
frameSpawn(r, f, c) ==
    LET sp == spawned(r, f.world, f.world.objects, f.effectiveSpeed, c, f.world.nextId)
    IN  [sp.world EXCEPT !.objects = f.world.objects \o sp.objects,
                         !.nextId = f.world.nextId + Len(sp.objects),
                         !.plan = [ran |-> furthestZ(f.world.objects) > -SPAWN_DISTANCE,
                                   objects |-> sp.objects,
                                   furthestZ |-> furthestZ(f.world.objects),
                                   minGap |-> sp.minGap,
                                   spawnZ |-> sp.spawnZ,
                                   letterDue |-> isLetterDue(r, f.world),
                                   level |-> r.level,
                                   collectedLetters |-> r.collectedLetters,
                                   nextLetterDistance |-> sp.world.nextLetterDistance]]

----------------------------------------------------------------------------
(* The effects that run after a render with a changed store                *)

POSITIVE_INFINITY == 2000000000

\* mutant: the letter schedule is left as it is on entering Endless
enterEndless_keepsLetterSchedule(w) ==
    [w EXCEPT !.nextPortalDistance = Max(@, w.distanceTraveled + 350000),
              !.nextRampDistance = Max(@, w.distanceTraveled + 80000)]

\* the enteredEndless branch of the effect
enterEndless(w) ==
    [w EXCEPT !.nextLetterDistance = POSITIVE_INFINITY,
              !.nextPortalDistance = Max(@, w.distanceTraveled + 350000),
              !.nextRampDistance = Max(@, w.distanceTraveled + 80000)]

\* LevelManager useEffect on [status, level, mode]
\* mutant: the level-up keeps the whole registry
levelUp_keepsAll(s, w) ==
    [w EXCEPT
        !.objects = Append(w.objects, GameObject(w.nextId, "SHOP_PORTAL", 0, 0, -100000)),
        !.nextId = w.nextId + 1,
        !.nextLetterDistance = w.distanceTraveled - SPAWN_DISTANCE
                               + getLetterInterval(s.level)]

\* the soft reset of a level-up: the entities deep in the fog go, the shop
\* portal comes, the letter schedule starts anew
levelUp(s, w) ==
    [w EXCEPT
        !.objects = Append(SelectSeq(w.objects, LAMBDA obj : obj.z > -80000),
                           GameObject(w.nextId, "SHOP_PORTAL", 0, 0, -100000)),
        !.nextId = w.nextId + 1,
        !.nextLetterDistance = w.distanceTraveled - SPAWN_DISTANCE
                               + getLetterInterval(s.level)]

lmEffect(s, w) ==
    LET isRestart == s.status = "PLAYING" /\ w.prevStatus = "GAME_OVER"
        isMenuReset == s.status = "MENU"
        isLevelUp == s.level # w.prevLevel /\ s.status = "PLAYING"
        enteredEndless == s.mode = "ENDLESS" /\ w.prevMode # "ENDLESS"
        w1 == [w EXCEPT !.prevStatus = s.status, !.prevLevel = s.level, !.prevMode = s.mode]
    IN  IF <<s.status, s.level, s.mode>> = <<w.prevStatus, w.prevLevel, w.prevMode>>
        THEN [store |-> s, world |-> w]
        ELSE IF isMenuReset \/ isRestart
        THEN [store |-> s,
              world |-> [w1 EXCEPT !.objects = << >>,
                                   !.distanceTraveled = 0,
                                   !.nextLetterDistance = getLetterInterval(1),
                                   !.nextPortalDistance = 450000,
                                   !.nextRampDistance = 80000]]
        ELSE IF enteredEndless
        THEN [store |-> s, world |-> enterEndless(w1)]
        ELSE IF isLevelUp /\ s.level > 1
        THEN [store |-> s, world |-> levelUp(s, w1)]
        ELSE IF s.status \in {"GAME_OVER", "VICTORY"}
        THEN [store |-> setDistance(s, w.distanceTraveled \div 1000), world |-> w1]
        ELSE [store |-> s, world |-> w1]

\* Player useEffect on [status] and on [laneCount, lane]
playerEffects(pl, s, prevStatus) ==
    LET maxLane == s.laneCount \div 2
        p1 == IF s.status = "PLAYING" /\ prevStatus # "PLAYING"
              THEN [pl EXCEPT !.isJumping = FALSE, !.jumpsPerformed = 0,
                              !.velocityY = 0, !.y = 0]
              ELSE pl
    IN  [p1 EXCEPT !.lane = Max(Min(pl.lane, maxLane), -maxLane)]

\* the components after the render that follows a change of the store
render(s, pl, w) ==
    LET e == lmEffect(s, w)
    IN  [ store |-> e.store,
          player |-> playerEffects(pl, s, w.prevStatus),
          world |-> e.world ]

----------------------------------------------------------------------------
(* Reachable states the explorations start from: each is built from the    *)
(* constructed program by the store's own operations, each followed by the *)
(* render it causes.  A state g holds the store and the two components.    *)

Constructed(v) == [store |-> useStore(v), player |-> PlayerInit, world |-> WorldInit]

\* the store call that yields s2, and the render after it
call(g, s2) == render(s2, g.player, g.world)

\* (each intermediate state is inspected before the next call, so that the
\* chain of calls is evaluated step by step)
RECURSIVE collectLetters(_, _)
collectLetters(g, seq) ==
    IF seq = << >> THEN g
    ELSE LET t == call(g, collectLetter(g.store, Head(seq)))
         IN  IF t.store.lives >= 0 THEN collectLetters(t, Tail(seq)) ELSE t

RECURSIVE collectGems(_, _)
collectGems(g, n) ==
    IF n = 0 THEN g
    ELSE LET t == call(g, collectGem(g.store, 100))
         IN  IF t.store.lives >= 0 THEN collectGems(t, n - 1) ELSE t

RECURSIVE takeDamages(_, _)
takeDamages(g, n) ==
    IF n = 0 THEN g
    ELSE LET t == call(g, takeDamage(g.store))
         IN  IF t.store.lives >= 0 THEN takeDamages(t, n - 1) ELSE t

Word == <<0, 1, 2, 3, 4, 5>>

LetterRuns == { << >>,
                <<0, 1, 2, 3, 4>>,
                Word \o Word \o <<5, 3, 1, 4, 2>> }

\* 60 gems, one visit to the shop to buy the immortality ability
shopped(g) ==
    LET g1 == collectGems(g, 60)
        g2 == call(g1, openShop(g1.store))
        g3 == call(g2, buyItem(g2.store, "IMMORTAL", 3000))
    IN  call(g3, closeShop(g3.store))

started(v) == call(Constructed(v), startGame(useStore(v)))

StoreSeeds(v) ==
    { Constructed(v) } \cup
    { takeDamages(IF rich THEN shopped(collectLetters(started(v), run))
                  ELSE collectLetters(started(v), run), d) :
        run \in LetterRuns, rich \in BOOLEAN, d \in {0, 5} }

----------------------------------------------------------------------------
(* SpecStore: the store, called through its operations in any order, with  *)
(* the Player's hit listener and the store's timeouts.                     *)

InitStore ==
    /\ \E g \in UNION { StoreSeeds(v) : v \in 1..3 } :
          /\ store = g.store
          /\ player = g.player
          /\ world = g.world
    /\ steps = 0
    /\ lastOp = [op |-> "init", arg |-> "", called |-> FALSE]

\* a step that is not a frame leaves s2, pl2 and the world to be rendered
Step(op, arg, called, s2, pl2) ==
    LET g == render(s2, pl2, [world EXCEPT !.trace = << >>, !.plan = noPlan])
    IN  /\ steps < MaxSteps
        /\ s2.score <= MaxScore
        /\ store' = g.store
        /\ player' = g.player
        /\ world' = g.world
        /\ steps' = steps + 1
        /\ lastOp' = [op |-> op, arg |-> arg, called |-> called]

\* one operation took the store from its state to s2
Did(op, arg, s2) == Step(op, arg, TRUE, s2, player)

HudStartGame ==
    /\ store.status = "MENU"
    /\ Did("startGame", "", startGame(store))

HudRestartGame ==
    /\ store.status \in {"GAME_OVER", "VICTORY"}
    /\ Did("restartGame", "", restartGame(store))

HudContinueEndless ==
    /\ store.status = "VICTORY"
    /\ store.variant \in {1, 3}
    /\ Did("continueEndless", "",
           IF store.variant = 1 THEN startEndlessFromVictory(store)
           ELSE continueEndless(store))

ShopBuyItem ==
    /\ store.status = "SHOP"
    /\ \E item \in SHOP_ITEMS :
          Did("buyItem", item.id, buyItem(store, item.id, item.cost))

ShopCloseShop ==
    /\ store.status = "SHOP"
    /\ Did("closeShop", "", closeShop(store))

CallOpenShop ==
    /\ Did("openShop", "", openShop(store))

CallCollectGem ==
    /\ \E value \in {50, 100} : Did("collectGem", "", collectGem(store, value))

CallCollectLetter ==
    /\ \E index \in 0..5 : Did("collectLetter", ToString(index), collectLetter(store, index))

CallApplyPowerUp ==
    /\ \E p \in PowerUps(store) : Did("applyPowerUp", p, applyPowerUp(store, p))

CallActivateImmortality ==
    /\ Did("activateImmortality", "", activateImmortality(store))

PlayerHit ==
    LET h == checkHit(store, store, player)
    IN  Step("playerHit", "", h.called, h.store, h.player)

\* Player useFrame: the post-hit window (1500 ms) has passed
InvincibilityExpires ==
    /\ player.isInvincible
    /\ store.status \in {"PLAYING", "SHOP"}
    /\ Step("invincibilityExpires", "", TRUE, store, [player EXCEPT !.isInvincible = FALSE])

ImmortalityTimeout ==
    /\ store.immortalityTimeouts > 0
    /\ Did("immortalityTimeout", "", immortalityTimeout(store))

BuffTimeout ==
    /\ \E p \in store.buffTimeouts :
          Did("buffTimeout", p,
              IF store.variant = 1 THEN buffTimeoutV1(store, p) ELSE buffTimeoutV2(store, p))

\* time passes an expiry timestamp of speedEffect (variant 2)
SpeedEffectElapses ==
    \/ /\ store.slowOn
       /\ Did("elapse", "SLOW", [store EXCEPT !.slowOn = FALSE])
    \/ /\ store.boostOn
       /\ Did("elapse", "BOOST", [store EXCEPT !.boostOn = FALSE])

\* time passes a buff's ...Until timestamp (variant 3)
BuffElapses ==
    \E b \in store.buffActive :
        Did("elapse", b, [store EXCEPT !.buffActive = store.buffActive \ {b}])

\* speedTimer fires 10 ms after the earliest expiry it was armed for
SpeedTimerFires ==
    /\ \/ "SLOW" \in store.speedTimer /\ ~store.slowOn
       \/ "BOOST" \in store.speedTimer /\ ~store.boostOn
    /\ Did("speedTimer", "", recomputeSpeedMultiplier(store))

NextStore ==
    \/ HudStartGame
    \/ HudRestartGame
    \/ HudContinueEndless
    \/ ShopBuyItem
    \/ ShopCloseShop
    \/ CallOpenShop
    \/ CallCollectGem
    \/ CallCollectLetter
    \/ CallApplyPowerUp
    \/ CallActivateImmortality
    \/ PlayerHit
    \/ InvincibilityExpires
    \/ ImmortalityTimeout
    \/ BuffTimeout
    \/ SpeedEffectElapses
    \/ BuffElapses
    \/ SpeedTimerFires

SpecStore == InitStore /\ [][NextStore]_vars

----------------------------------------------------------------------------
(* SpecBuffs: one run of store variant 1 or 2 in which power-ups are       *)
(* applied while the clock runs.  A timeout runs when its time has come,   *)
(* and the clock does not pass a due timeout.                              *)

\* the steps by which the clock advances when no timeout is due earlier
TimeSteps == {2000}

InitBuffs ==
    /\ \E v \in 1..2 :
          /\ store = started(v).store
          /\ player = started(v).player
          /\ world = started(v).world
    /\ steps = 0
    /\ lastOp = [op |-> "init", arg |-> "", called |-> FALSE]

\* a step of the store that is not counted
Timed(op, arg, s2) ==
    /\ store' = s2
    /\ UNCHANGED <<player, world, steps>>
    /\ lastOp' = [op |-> op, arg |-> arg, called |-> TRUE]

BuffApply ==
    /\ steps < MaxSteps
    /\ \E p \in PowerUps(store) :
          /\ store' = [applyPowerUpAt(store, p) EXCEPT
                          !.clock.applied[p] = store.clock.now,
                          !.clock.before[p] = store.clock.applied[p]]
          /\ lastOp' = [op |-> "applyPowerUp", arg |-> p, called |-> TRUE]
    /\ steps' = steps + 1
    /\ UNCHANGED <<player, world>>

ClockAdvances ==
    /\ Due(store) = {}
    /\ ~speedTimerDue(store)
    /\ Ahead(store) # {}
    /\ \E dt \in TimeSteps :
          LET next == CHOOSE due \in Ahead(store) : \A other \in Ahead(store) : due <= other
              t == Min(store.clock.now + dt, next)
          IN  Timed("clock", "",
                    [store EXCEPT !.clock.now = t,
                                  !.slowOn = store.slowOn /\ store.clock.slowUntil > t,
                                  !.boostOn = store.boostOn /\ store.clock.boostUntil > t])

BuffTimeoutAt ==
    \E t \in Due(store) :
        Timed("buffTimeout", t.p,
              [(IF store.variant = 1 THEN buffTimeoutV1(store, t.p) ELSE buffTimeoutV2(store, t.p))
                  EXCEPT !.clock.timeouts = store.clock.timeouts \ {t}])

SpeedTimerAt ==
    /\ speedTimerDue(store)
    /\ Timed("speedTimer", "", reschedule(recomputeSpeedMultiplier(store)))

NextBuffs ==
    \/ BuffApply
    \/ ClockAdvances
    \/ BuffTimeoutAt
    \/ SpeedTimerAt

SpecBuffs ==
    /\ InitBuffs
    /\ [][NextBuffs]_vars
    /\ WF_vars(ClockAdvances)
    /\ WF_vars(BuffTimeoutAt)
    /\ WF_vars(SpeedTimerAt)

----------------------------------------------------------------------------
(* SpecImmortal: the store of any variant, called through the operations   *)
(* that bear on the immortality ability, while the clock runs.             *)

ImmortalActivate ==
    /\ Did("activateImmortality", "", activateImmortalityAt(store))

ImmortalTimeoutAt ==
    \E t \in Due(store) :
        /\ t.p = "IMMORTAL"
        /\ Timed("immortalityTimeout", "",
                 [immortalityTimeout(store) EXCEPT !.clock.timeouts = store.clock.timeouts \ {t}])

NextImmortal ==
    \/ ImmortalActivate
    \/ ImmortalTimeoutAt
    \/ ClockAdvances
    \/ HudStartGame
    \/ HudRestartGame
    \/ CallOpenShop
    \/ ShopBuyItem
    \/ ShopCloseShop
    \/ CallCollectLetter
    \/ PlayerHit

SpecImmortal ==
    /\ InitStore
    /\ [][NextImmortal]_vars
    /\ WF_vars(ClockAdvances)
    /\ WF_vars(ImmortalTimeoutAt)

----------------------------------------------------------------------------
(* Spec: the game as it runs with store variant 2, the variant whose fields *)
(* LevelManager reads.  The exploration starts from states in the middle of *)
(* a run: a store built by the store's operations, and a registry in age    *)
(* order as the planner and the aliens leave it (waves at least minGap      *)
(* apart, a missile ahead of everything spawned after it).                  *)

registry(objs) == [i \in 1..Len(objs) |-> [objs[i] EXCEPT !.id = i]]

scene(g, pl, objs, distance, nextLetter) ==
    [ store |-> g.store,
      player |-> pl,
      world |-> [g.world EXCEPT !.objects = registry(objs),
                                !.nextId = Len(objs) + 1,
                                !.distanceTraveled = distance,
                                !.nextLetterDistance = nextLetter,
                                !.trace = << >>,
                                !.plan = noPlan] ]

\* a scene of the Endless mode: no letter schedule, the portal and ramp
\* schedules as the transition and the steps since then left them
endlessScene(g, pl, objs, distance, nextPortal, nextRamp) ==
    LET e == scene(g, pl, objs, distance, POSITIVE_INFINITY)
    IN  [e EXCEPT !.world.nextPortalDistance = nextPortal,
                  !.world.nextRampDistance = nextRamp]

gem(x, y, z, points) == [GameObject(0, "GEM", x, y, z) EXCEPT !.points = points]
letter(x, z, index) == [GameObject(0, "LETTER", x, 1000, z) EXCEPT !.targetIndex = index]
powerup(x, z, p) == [GameObject(0, "POWERUP", x, 1200, z) EXCEPT !.powerUpType = p]
collected(obj) == [obj EXCEPT !.active = FALSE, !.effects = 1]
firedAlien(x, z) == [GameObject(0, "ALIEN", x, 1500, z) EXCEPT !.hasFired = TRUE]

\* a wave far enough to keep the planner idle, and one that lets it run
farWave == gem(0, 1200, -130000, 50)
dueWave == gem(2200, 1200, -119500, 50)

\* two and three 50 ms frames into a jump
rising ==
    playerFrame(playerFrame(triggerJump(PlayerInit, started(2).store),
                            started(2).store, 50, FALSE),
                started(2).store, 50, FALSE)

midJump == playerFrame(rising, started(2).store, 50, FALSE)

\* n more 50 ms frames
RECURSIVE frames(_, _, _)
frames(pl, r, n) ==
    IF n = 0 THEN pl ELSE frames(playerFrame(pl, r, 50, FALSE), r, n - 1)

\* thirteen 50 ms frames into a jump, on the way down
descending == frames(midJump, started(2).store, 10)

\* two lane changes to the right at five lanes, then four 50 ms frames
atLane2(r) ==
    playerFrame(playerFrame(playerFrame(playerFrame(
        moveLane(moveLane(PlayerInit, r, 1), r, 1), r, 50, FALSE), r, 50, FALSE),
        r, 50, FALSE), r, 50, FALSE)

\* n steps of the endless ramp
RECURSIVE ramped(_, _)
ramped(g, n) ==
    IF n = 0 THEN g
    ELSE LET t == call(g, setSpeed(g.store, rampSpeed(g.store.speed)))
         IN  IF t.store.lives >= 0 THEN ramped(t, n - 1) ELSE t

level2 == collectLetters(started(2), Word)
level3 == collectLetters(started(2), Word \o Word \o <<5, 3, 1, 4, 2>>)
endless == collectLetters(level3, <<0>>)
with(g, p) == call(g, applyPowerUp(g.store, p))

Scenes ==
    LET spikeWave == << GameObject(0, "OBSTACLE", 0, 800, -1000),
                        gem(0, 2600, -1000, 100), farWave >>
        missileWave == << firedAlien(0, -52900), GameObject(0, "MISSILE", 0, 1000, -1500),
                          farWave >>
        alienWave == << firedAlien(0, -1000), farWave >>
        \* 10 gems, one visit to the shop to buy the double jump
        rich == collectGems(started(2), 10)
        inShop == call(rich, openShop(rich.store))
        bought == call(inShop, buyItem(inShop.store, "DOUBLE_JUMP", 1000))
        doubleJumper == call(bought, closeShop(bought.store))
    IN  { Constructed(2) }
        \cup { scene(doubleJumper, pl, << farWave >>, 400000, 450000) :
                 pl \in {PlayerInit, midJump, descending} }
        \cup { scene(g, pl, spikeWave, 400000, 450000) :
                 g \in { started(2), takeDamages(started(2), 5),
                         with(takeDamages(started(2), 5), "SHIELD"),
                         with(shopped(started(2)), "SLOW"),
                         with(started(2), "BOOST") },
                 pl \in {PlayerInit, midJump} }
        \cup { scene(g, pl, wave, 1300000, 1400000) :
                 g \in { level2, takeDamages(level2, 5) },
                 pl \in {PlayerInit, rising, midJump},
                 wave \in {missileWave, alienWave} }
        \cup { scene(takeDamages(collectLetters(level2, <<0, 1, 2, 3, 4>>), 5), PlayerInit,
                     << letter(0, -1000, 5), firedAlien(0, -52900),
                        GameObject(0, "MISSILE", 0, 1000, -1500), farWave >>,
                     2000000, 2100000),
               scene(takeDamages(level2, 5), PlayerInit,
                     << GameObject(0, "SHOP_PORTAL", 0, 0, -4000), firedAlien(0, -52900),
                        GameObject(0, "MISSILE", 0, 1000, -1500), farWave >>,
                     1000000, 1200000),
               scene(takeDamages(level3, 5), PlayerInit,
                     << letter(0, -1000, 0), firedAlien(0, -52900),
                        GameObject(0, "MISSILE", 0, 1000, -1500), farWave >>,
                     5000000, 5100000),
               scene(level2, PlayerInit,
                     << GameObject(0, "SHOP_PORTAL", 0, 0, -1000), farWave >>,
                     1000000, 1200000),
               scene(level3, PlayerInit,
                     << letter(0, -1000, 0), GameObject(0, "ALIEN", 2200, 1500, -90500),
                        gem(0, 1200, -125000, 50) >>,
                     5000000, 5100000),
               scene(with(started(2), "MAGNET"), PlayerInit,
                     << gem(2200, 1200, -3000, 50), powerup(-2200, -20000, "INVERT"),
                        farWave >>,
                     300000, 450000),
               scene(collectLetters(level2, <<0, 1, 2, 3>>), PlayerInit, << dueWave >>,
                     2005300, 2005000),
               scene(level3, PlayerInit, << dueWave >>, 4505300, 4505000),
               scene(started(2), PlayerInit,
                     << letter(0, -2010, 3), gem(2200, 1200, -121110, 50) >>,
                     300500, 300000),
               scene(collectLetters(started(2), <<0, 1, 2, 3, 4>>), PlayerInit,
                     << letter(0, -1000, 5), gem(2200, 1200, -50000, 50), farWave >>,
                     1000000, 1100000),
               scene(started(2), PlayerInit,
                     << GameObject(0, "OBSTACLE", 2200, 800, 19500),
                        GameObject(0, "OBSTACLE", 2200, 800, -100000), dueWave >>,
                     450300, 450000),
               scene(takeDamages(level2, 5), atLane2(level2.store),
                     << GameObject(0, "OBSTACLE", 4400, 800, -1000), farWave >>,
                     1300000, 1400000),
               endlessScene(ramped(endless, 14), PlayerInit, << dueWave >>,
                            6000000, 5999000, 6002000),
               endlessScene(endless, PlayerInit, << dueWave >>,
                            6000000, 6300000, 6040000),
               scene(level2, PlayerInit,
                     << collected(gem(0, 1200, 19900, 50)),
                        gem(-2200, 1200, 19500, 50), farWave >>,
                     1300000, 1400000),
               endlessScene(endless, PlayerInit,
                            << powerup(0, -1000, "MAGNET"), farWave >>,
                            6000000, 6300000, 6002000),
               endlessScene(with(ramped(endless, 14), "BOOST"), PlayerInit,
                            << GameObject(0, "SHOP_PORTAL", 0, 0, -2100), farWave >>,
                            6500000, 6860000, 6540000) }

Init ==
    /\ \E g \in Scenes :
          /\ store = g.store
          /\ player = g.player
          /\ world = g.world
    /\ steps = 0
    /\ lastOp = [op |-> "init", arg |-> "", called |-> FALSE]

\* one animation frame: the two useFrame callbacks and the render after
\* them, the planner drawing waves of up to maxWave spikes or aliens
FrameAt(s, maxWave, delta, windowPassed) ==
    \E pl1 \in { playerFrame(player, s, delta, windowPassed) } :
        IF ~ticking(s)
        THEN /\ store' = s
             /\ player' = pl1
             /\ world' = [world EXCEPT !.trace = << >>, !.plan = noPlan]
        ELSE \E f \in { frameLoop(s, pl1, world, delta) } :
             \E c \in spawnChoicesUpTo(s, f.world, f.world.objects, maxWave) :
             \E g \in { render(f.store, f.player, frameSpawn(s, f, c)) } :
                /\ g.store.score <= MaxScore
                /\ store' = g.store
                /\ player' = g.player
                /\ world' = g.world

\* (whether the 1500 ms after the last damage have passed is an input)
FrameOf(maxWave) ==
    \E delta \in Deltas, windowPassed \in BOOLEAN :
       /\ windowPassed => player.isInvincible
       /\ FrameAt(store, maxWave, delta, windowPassed)

FrameStep == FrameOf(MaxWave)

Frame ==
    /\ steps < MaxSteps
    /\ FrameStep
    /\ steps' = steps + 1
    /\ lastOp' = [op |-> "frame", arg |-> "", called |-> TRUE]

PointerMoveLane ==
    /\ store.status = "PLAYING"
    /\ \E dir \in {-1, 1} :
          Step("moveLane", ToString(dir), TRUE, store, moveLane(player, store, dir))

PointerJump ==
    /\ store.status = "PLAYING"
    /\ Step("triggerJump", "", TRUE, store, triggerJump(player, store))

PointerTap ==
    /\ store.status = "PLAYING"
    /\ Did("activateImmortality", "", activateImmortality(store))

Next ==
    \/ Frame
    \/ PointerMoveLane
    \/ PointerJump
    \/ PointerTap
    \/ HudStartGame
    \/ HudRestartGame
    \/ ShopBuyItem
    \/ ShopCloseShop
    \/ ImmortalityTimeout
    \/ BuffTimeout
    \/ SpeedEffectElapses
    \/ SpeedTimerFires

Spec == Init /\ [][Next]_vars

----------------------------------------------------------------------------
(* SpecLetter: a run in Story mode from the moment a letter has become due *)
(* while the furthest entity is still behind the spawn horizon.  The frame *)
(* callbacks run on every animation frame, so the frames are taken fairly; *)
(* they are followed until the letter is out, the run has stopped, or the  *)
(* distance is MaxWait past the letter's schedule.                         *)

\* the furthest wave: an obstacle in an outer lane
blocking(z) == << GameObject(0, "OBSTACLE", 2200, 800, z) >>

WaitScenes ==
    { scene(started(2), PlayerInit, blocking(z), 450300, 450000) :
         z \in {-121110, -126000} }
    \cup { scene(g, PlayerInit, blocking(-123000), 450300, 450000) :
             g \in { with(started(2), "SLOW"), with(started(2), "BOOST") } }
    \cup { scene(collectLetters(level2, <<0, 1, 2, 3>>), PlayerInit, blocking(-123000),
                 2005300, 2005000),
           scene(level3, PlayerInit, blocking(-123000), 4505300, 4505000),
           scene(takeDamages(started(2), 5), PlayerInit,
                 << GameObject(0, "OBSTACLE", 0, 800, -3000) >> \o blocking(-123000),
                 450300, 450000) }

InitLetter ==
    /\ \E g \in WaitScenes :
          /\ store = g.store
          /\ player = g.player
          /\ world = g.world
    /\ steps = 0
    /\ lastOp = [op |-> "init", arg |-> "", called |-> FALSE]

LetterFrame ==
    /\ store.status = "PLAYING"
    /\ isLetterDue(store, world)
    /\ world.distanceTraveled < world.nextLetterDistance + MaxWait
    /\ FrameStep
    /\ steps' = steps
    /\ lastOp' = [op |-> "frame", arg |-> "", called |-> TRUE]

NextLetter ==
    \/ LetterFrame
    \/ SpeedEffectElapses
    \/ SpeedTimerFires

SpecLetter == InitLetter /\ [][NextLetter]_vars /\ WF_vars(LetterFrame)

----------------------------------------------------------------------------
(* SpecWaves: a run from a state in which the planner has room to spawn, up *)
(* to its next wave, with every size of wave the planner can draw (one to   *)
(* three spikes, one or two aliens).                                        *)

WaveScenes ==
    { scene(started(2), PlayerInit, << dueWave >>, 400000, 450000),
      scene(level2, PlayerInit, << dueWave >>, 1300000, 1400000),
      endlessScene(endless, PlayerInit, << dueWave >>, 6000000, 6300000, 6040000) }

InitWaves ==
    /\ \E g \in WaveScenes :
          /\ store = g.store
          /\ player = g.player
          /\ world = g.world
    /\ steps = 0
    /\ lastOp = [op |-> "init", arg |-> "", called |-> FALSE]

WaveFrame ==
    /\ steps < MaxSteps
    /\ world.plan.objects = << >>
    /\ FrameOf(3)
    /\ steps' = steps + 1
    /\ lastOp' = [op |-> "frame", arg |-> "", called |-> TRUE]

SpecWaves == InitWaves /\ [][WaveFrame]_vars

----------------------------------------------------------------------------
(* Properties of the store *)

InStory(s) == IF s.variant = 3 THEN ~s.isEndlessMode ELSE s.mode = "STORY"

Shielded(s) == s.isShieldActive \/ s.shieldCharges > 0

LastIndex == CHOOSE i \in 0..5 : ToString(i) = lastOp.arg

\* C1: in every store variant takeDamage with lives = 1, immortality not
\* active and no shield (flag off, zero charges) gives lives = 0, speed = 0
\* and status GAME_OVER, whatever the other buff fields are.
C1_LastLifeEndsRun ==
    (store.lives = 1 /\ ~store.isImmortalityActive /\ ~Shielded(store))
        => LET t == takeDamage(store)
           IN  /\ t.lives = 0
               /\ t.speed = 0
               /\ t.status = "GAME_OVER"

\* a hit took the last life while a buff (magnet, score multiplier or a
\* speed effect) was on
C1_Witness ==
    /\ lastOp.op = "playerHit" /\ lastOp.called
    /\ store.status = "GAME_OVER" /\ store.lives = 0 /\ store.speed = 0
    /\ \/ store.isMagnetActive
       \/ store.scoreMultiplier = 2
       \/ store.speedMultiplier # 10000

\* C2: in every reachable state 0 <= lives <= maxLives <= 6.
C2_LivesWithinMax ==
    /\ 0 <= store.lives
    /\ store.lives <= store.maxLives
    /\ store.maxLives <= 6

\* HEAL was bought with all six lives left
C2_Witness ==
    /\ lastOp.op = "buyItem" /\ lastOp.arg = "HEAL"
    /\ store.lives = 6 /\ store.score = 2000

\* C4 as claimed: for every index, a second collectLetter(i) leaves the state
\* of the first call unchanged.
C4_AlwaysIdempotent ==
    \A i \in 0..5 :
        collectLetter(collectLetter(store, i), i) = collectLetter(store, i)

\* C4 amended: the second collectLetter(i) changes nothing when i is in
\* collectedLetters after the first call, or when the mode is Endless in
\* variants 1 and 3; when the first call completed the word the set was
\* emptied and the second call collects i again; in the Endless mode of
\* variant 2 every call adds 250 x scoreMultiplier to the score.
C4_IdempotentWhileCollected ==
    \A i \in 0..5 :
        LET t == collectLetter(store, i)
            u == collectLetter(t, i)
            inc == IF t.variant = 2 THEN SpeedPart(600) ELSE SpeedPart(1000)
        IN  /\ includes(t.collectedLetters, i) => u = t
            /\ (~InStory(t) /\ t.variant # 2) => u = t
            /\ (t.variant = 2 /\ t.mode = "ENDLESS")
                  => u = [t EXCEPT !.score = t.score + 250 * t.scoreMultiplier]
            /\ (InStory(t) /\ ~includes(t.collectedLetters, i))
                  => /\ t.collectedLetters = << >>
                     /\ u = [t EXCEPT !.collectedLetters = <<i>>,
                                      !.speed = t.speed + inc]

\* a letter was collected and is in the collected set
C4_Witness ==
    /\ lastOp.op = "collectLetter"
    /\ includes(store.collectedLetters, LastIndex)

Won(s, t) ==
    /\ t.score = s.score + 5000
    /\ IF s.variant = 2 THEN t.mode = "ENDLESS" /\ s.mode = "STORY"
       ELSE t.status = "VICTORY"

\* C5: in Story mode a collectLetter call makes a transition exactly when it
\* collects the sixth distinct index: the level advance when level < 3, the
\* victory/endless transition when level = 3, never both; and no call that
\* follows it makes a transition again.
C5_OneTransitionPerWord ==
    InStory(store) =>
        \A i \in 0..5 :
            LET t == collectLetter(store, i)
                sixth == Len(store.collectedLetters) = 5
                         /\ ~includes(store.collectedLetters, i)
            IN  /\ ~sixth => /\ t.level = store.level
                             /\ t.status = store.status
                             /\ t.mode = store.mode
                             /\ ~Won(store, t)
                /\ (sixth /\ store.level < MAX_LEVEL)
                      => /\ t.level = store.level + 1
                         /\ t.collectedLetters = << >>
                         /\ ~Won(store, t)
                /\ (sixth /\ store.level >= MAX_LEVEL)
                      => /\ Won(store, t)
                         /\ t.level = store.level
                /\ sixth => \A j \in 0..5 :
                                LET u == collectLetter(t, j)
                                IN  u.level = t.level /\ ~Won(t, u)

\* the sixth letter of level 1 was collected: level 2, empty set
C5_Witness ==
    /\ lastOp.op = "collectLetter"
    /\ store.level = 2 /\ store.collectedLetters = << >>
    /\ store.status = "PLAYING"

\* C6 as claimed: takeDamage under immortality or a shield changes no field,
\* and a hit signal under immortality, a shield or the post-hit window does
\* not call takeDamage.
C6_DamageIsNoOp ==
    /\ (store.isImmortalityActive \/ Shielded(store)) => takeDamage(store) = store
    /\ (player.isInvincible \/ store.isImmortalityActive \/ Shielded(store))
          => ~checkHit(store, store, player).called

\* C6 amended: takeDamage changes no field under immortality or the shield
\* flag of variant 1; with shield charges (variant 2) and no immortality it
\* takes one charge and nothing else.  A hit signal under immortality, the
\* shield flag or the post-hit window does not call takeDamage; with shield
\* charges it does, which takes one charge and opens the post-hit window.
C6_DamageAbsorbed ==
    LET h == checkHit(store, store, player)
        charged == [store EXCEPT !.shieldCharges = store.shieldCharges - 1]
    IN  /\ store.isImmortalityActive => takeDamage(store) = store
        /\ store.isShieldActive => takeDamage(store) = store
        /\ (~store.isImmortalityActive /\ store.shieldCharges > 0)
              => takeDamage(store) = charged
        /\ (player.isInvincible \/ store.isImmortalityActive \/ store.isShieldActive)
              => ~h.called /\ h.store = store /\ h.player = player
        /\ (~player.isInvincible /\ ~store.isImmortalityActive /\ store.shieldCharges > 0)
              => h.called /\ h.store = charged /\ h.player.isInvincible

\* a hit signal arrived under immortality and takeDamage was not called
C6_Witness ==
    /\ lastOp.op = "playerHit" /\ ~lastOp.called
    /\ store.isImmortalityActive

\* C11: buyItem(type, cost) returns false and leaves every field of the state
\* unchanged when score < cost or when type is MAX_LIFE and maxLives is
\* already 6 (for the catalogue's prices and for any other price).
C11_RefusedPurchaseChangesNothing ==
    \A type \in { item.id : item \in SHOP_ITEMS } :
        \A cost \in { item.cost : item \in SHOP_ITEMS } \cup {0, store.score, store.score + 1} :
            (store.score < cost \/ (type = "MAX_LIFE" /\ store.maxLives >= 6))
                => /\ ~buyItemReturns(store, type, cost)
                   /\ buyItem(store, type, cost) = store

\* the shop's MAX_LIFE button was pressed with enough score and six lives
C11_Witness ==
    /\ lastOp.op = "buyItem" /\ lastOp.arg = "MAX_LIFE"
    /\ store.maxLives = 6 /\ store.score >= 1500
    /\ store.status = "SHOP"

\* C13: in every reachable state collectedLetters holds no index twice and
\* has at most 6 elements.
C13_LettersDistinctAtMostSix ==
    /\ Len(store.collectedLetters) <= 6
    /\ \A j, k \in DOMAIN store.collectedLetters :
          j # k => store.collectedLetters[j] # store.collectedLetters[k]
    /\ \A k \in DOMAIN store.collectedLetters : store.collectedLetters[k] \in 0..5

\* a collectLetter call for an index of a set that already holds five
\* (the set is left at five, or is the full word of the victory screen)
C13_Witness ==
    /\ lastOp.op = "collectLetter"
    /\ Len(store.collectedLetters) >= 5
    /\ store.collectedLetters[1] = LastIndex

\* a run as startGame leaves it
FreshRun(s) ==
    /\ s.status = "PLAYING" /\ InStory(s)
    /\ s.speed = RUN_SPEED_BASE /\ s.lives = 6 /\ s.level = 1 /\ s.laneCount = 3
    /\ s.collectedLetters = << >>

\* C14 as claimed: from a freshly started run collectLetter(3) gives
\* collectedLetters = [3], speed = 22.5 + 2.25 = 24.75 and status PLAYING,
\* with lives, level and laneCount unchanged.
C14_FirstLetterAddsTenPercent ==
    FreshRun(store) =>
        collectLetter(store, 3) = [store EXCEPT !.collectedLetters = <<3>>,
                                                !.speed = 24750]

\* C14 amended: from a freshly started run collectLetter(3) changes only
\* collectedLetters, to [3], and speed: to 24.75 (22.5 + 10% of the base
\* speed) in variants 1 and 3, to 23.85 (22.5 + 6%) in variant 2.
C14_FirstLetterAddsItsIncrement ==
    FreshRun(store) =>
        collectLetter(store, 3) =
            [store EXCEPT !.collectedLetters = <<3>>,
                          !.speed = IF store.variant = 2 THEN 23850 ELSE 24750]

\* letter 3 was collected as the first letter of a fresh run of variant 1
C14_Witness ==
    /\ lastOp.op = "collectLetter" /\ lastOp.arg = "3"
    /\ store.variant = 1
    /\ store = [startGame(useStore(1)) EXCEPT !.collectedLetters = <<3>>, !.speed = 24750]

\* C15: when status becomes PLAYING from MENU or through restartGame (from
\* the game-over screen or from the victory screen), the registry is empty
\* and distanceTraveled = 0, nextLetterDistance = 150, nextPortalDistance =
\* 450 and nextRampDistance = 80 before the first tick of the new run.
C15_NewRunStartsFromEmptyWorld ==
    (lastOp.op \in {"startGame", "restartGame"} /\ store.status = "PLAYING")
        => /\ world.objects = << >>
           /\ world.distanceTraveled = 0
           /\ world.nextLetterDistance = getLetterInterval(1)
           /\ world.nextPortalDistance = 450000
           /\ world.nextRampDistance = 80000

\* the fields of the store as startGame and restartGame write them
ResetFields(s) ==
    /\ s.status = "PLAYING" /\ InStory(s)
    /\ s.score = 0 /\ s.lives = 6 /\ s.maxLives = 6
    /\ s.speed = RUN_SPEED_BASE /\ s.level = 1 /\ s.laneCount = 3
    /\ s.collectedLetters = << >> /\ s.gemsCollected = 0 /\ s.distance = 0
    /\ ~s.hasDoubleJump /\ ~s.hasImmortality /\ ~s.isImmortalityActive
    /\ ~s.isShieldActive /\ ~s.isMagnetActive /\ ~s.isControlsReversed
    /\ ~s.isSlowMoActive /\ ~s.isControlsInverted /\ s.shieldCharges = 0
    /\ s.buffActive = {}
    /\ s.speedMultiplier = 10000 /\ s.scoreMultiplier = 1

\* the fields of the store alone are the same after every start and restart
C21_StoreFieldsReset ==
    lastOp.op \in {"startGame", "restartGame"} => ResetFields(store)

\* C21: startGame and restartGame produce the same state from every prior
\* state: the fields of the store at their starting values, every buff
\* inactive (the slow and the boost of speedEffect included) and every
\* multiplier 1.
C21_StartIsFullReset ==
    lastOp.op \in {"startGame", "restartGame"}
        => /\ ResetFields(store)
           /\ ~store.slowOn /\ ~store.boostOn

----------------------------------------------------------------------------
(* Properties of the game *)

Terminal == {"GAME_OVER", "VICTORY"}

Entries == { world.trace[i] : i \in DOMAIN world.trace }

Registered(id) == \E i \in DOMAIN world.objects : world.objects[i].id = id

\* C3: once status is GAME_OVER or VICTORY it stays so until startGame,
\* restartGame or the continue-to-endless action: no step of the game changes
\* it otherwise, and within the tick that entered it no call made for a later
\* entity of the registry changes it.
C3_TerminalUntilRestart ==
    [][ /\ store.status \in Terminal
           => \/ store'.status = store.status
              \/ lastOp'.op \in {"startGame", "restartGame", "continueEndless"}
        /\ \A i \in DOMAIN world'.trace :
              /\ world'.trace[i].statusBefore \in Terminal
                    => world'.trace[i].status = world'.trace[i].statusBefore
              /\ i = Len(world'.trace) /\ world'.trace[i].status \in Terminal
                    => store'.status = world'.trace[i].status ]_vars

\* the tick entered GAME_OVER at one entity and a later entity of the same
\* tick was collected
C3_Witness ==
    /\ store.status = "GAME_OVER"
    /\ \E i, j \in DOMAIN world.trace :
          /\ i < j
          /\ world.trace[i].statusBefore = "PLAYING"
          /\ world.trace[i].status = "GAME_OVER"
          /\ world.trace[j].effect = "collect"

\* C7: in a tick, an active entity other than a portal that was ahead of the
\* player before the move (prevZ < 0, the player's z) and is at or behind the
\* player after it (newZ >= 0) has a true z-zone test in that tick.
C7_CrossingIsInZone ==
    \A e \in Entries :
        (e.wasActive /\ e.type # "SHOP_PORTAL" /\ e.prevZ < 0 /\ e.newZ >= 0) => e.zone

\* an active entity went in one tick from ahead of the player to more than 2
\* units behind
C7_Witness ==
    \E e \in Entries :
        e.wasActive /\ e.type # "SHOP_PORTAL" /\ e.prevZ < 0 /\ e.newZ >= 2000 /\ e.zone

\* C8: in a tick an active damage source emits one player-hit signal and
\* becomes inactive exactly when it is in the swept z-zone, its lateral
\* distance to the player is below 0.9 and its vertical extent (spike 0..1.6,
\* missile 0.5..1.5, otherwise y-0.5..y+0.5) overlaps playerY..playerY+1.8;
\* otherwise it emits none and stays active.
C8_HitIffOverlap ==
    \A e \in Entries :
        (e.wasActive /\ e.type \in {"OBSTACLE", "ALIEN", "MISSILE"}) =>
            LET bottom == IF e.type = "OBSTACLE" THEN 0
                          ELSE IF e.type = "MISSILE" THEN 500 ELSE e.y - 500
                top == IF e.type = "OBSTACLE" THEN 1600
                       ELSE IF e.type = "MISSILE" THEN 1500 ELSE e.y + 500
            IN  IF /\ e.prevZ < 2000 /\ e.newZ > -2000
                   /\ e.dx < 900
                   /\ e.playerY < top /\ e.playerY + 1800 > bottom
                THEN e.signals = 1 /\ ~e.active
                ELSE e.signals = 0 /\ e.active

\* an alien hit a player who had already risen above a spike's height
C8_Witness ==
    \E e \in Entries :
        e.wasActive /\ e.type = "ALIEN" /\ e.signals = 1 /\ e.playerY >= 1600

\* C9: an entity that is inactive when the tick reaches it triggers no hit
\* signal, no collection and no openShop, and no entity has triggered more
\* than one such effect since it was spawned.
C9_InactiveHasNoEffect ==
    /\ \A e \in Entries :
          /\ ~e.wasActive => e.effect = "none" /\ e.signals = 0
          /\ e.effects <= 1
    /\ \A i \in DOMAIN world.objects :
          /\ world.objects[i].effects <= 1
          /\ world.objects[i].effects = 1 => ~world.objects[i].active

\* an entity that had its effect in an earlier tick is inside the collision
\* zone again, in the player's lane
C9_Witness ==
    \E e \in Entries :
        ~e.wasActive /\ e.effects = 1 /\ e.zone /\ e.dx < 900 /\ e.kept

NewMissiles ==
    { i \in DOMAIN world.objects :
         /\ world.objects[i].type = "MISSILE"
         /\ \A e \in Entries : e.id # world.objects[i].id }

\* C12: an alien fires in the first tick in which it is active, has not
\* fired and is at z > -90 after the move, and in no other; that tick sets
\* hasFired and adds exactly one missile, at the alien's x and 2 units nearer
\* the player (the registry is looked at after the tick's render, so the
\* ticks that end in a level-up, whose effect purges what is deeper than -80,
\* are left out of this part); an alien whose hasFired is set does not fire
\* in a later tick.
C12_AlienFiresOnce ==
    [][ /\ \A e \in Entries' :
              /\ e.fired <=> (e.type = "ALIEN" /\ e.wasActive /\ ~e.hadFired
                                /\ e.newZ > -90000)
              /\ (e.fired /\ store'.level = store.level)
                    => /\ \E i \in DOMAIN world'.objects :
                             /\ world'.objects[i].id = e.id
                             /\ world'.objects[i].hasFired
                       /\ Cardinality({ i \in NewMissiles' :
                                          /\ world'.objects[i].x = e.x
                                          /\ world'.objects[i].y = 1000
                                          /\ world'.objects[i].z = e.newZ + 2000
                                          /\ world'.objects[i].active }) = 1
        /\ (lastOp'.op = "frame" /\ store.status = "PLAYING" /\ store'.level = store.level)
              => Cardinality(NewMissiles') = Cardinality({ e \in Entries' : e.fired })
        /\ \A i \in DOMAIN world.objects :
              world.objects[i].hasFired
                 => \A e \in Entries' : e.id = world.objects[i].id => ~e.fired ]_vars

\* an alien that fired in an earlier tick of the exploration is visited
\* again, active and in range, and its missile is on its way
C12_Witness ==
    \E e \in Entries :
        /\ e.type = "ALIEN" /\ e.wasActive /\ e.hadFired /\ ~e.fired /\ e.newZ > -90000
        /\ e.x = LANE_WIDTH
        /\ \E i \in DOMAIN world.objects :
              /\ world.objects[i].type = "MISSILE"
              /\ world.objects[i].x = e.x
              /\ world.objects[i].id > e.id

Band(s) == (-(s.laneCount \div 2)) .. (s.laneCount \div 2)

\* C16: the player's lane is always in [-floor(laneCount/2),
\* floor(laneCount/2)]; a moveLane request that would leave the band leaves
\* the lane at the boundary, any other is applied; and after laneCount has
\* changed the lane is inside the new band.
C16_LaneWithinBand ==
    /\ player.lane \in Band(store)
    /\ \A dir \in {-1, 1} :
          LET lane == moveLane(player, store, dir).lane
              wanted == player.lane + (IF store.isControlsReversed THEN -dir ELSE dir)
          IN  /\ wanted \in Band(store) => lane = wanted
              /\ wanted \notin Band(store) => lane = player.lane

\* a restart took laneCount from 5 to 3 while the player was in lane 2 (the
\* body is still at lane 2's x): the lane is clamped to 1
C16_Witness ==
    /\ lastOp.op = "restartGame"
    /\ store.laneCount = 3
    /\ player.lane = 1
    /\ player.x > LANE_WIDTH + LANE_WIDTH \div 2

\* the entities the planner pushed in the tick: in the registry, not visited
\* by the loop and not a missile
Planned ==
    { i \in DOMAIN world.objects :
         /\ lastOp.op = "frame"
         /\ world.trace # << >>
         /\ world.objects[i].type # "MISSILE"
         /\ world.objects[i].z <= -SPAWN_DISTANCE
         /\ \A e \in Entries : e.id # world.objects[i].id }

\* C17: while mode is ENDLESS the planner creates no letter and
\* nextLetterDistance is infinite, from the transition on; and at the
\* transition nextPortalDistance >= distance + 350 and nextRampDistance >=
\* distance + 80.
C17_NoLettersInEndless ==
    [][ /\ store'.mode = "ENDLESS"
           => /\ world'.nextLetterDistance = POSITIVE_INFINITY
              /\ \A i \in Planned' : world'.objects[i].type # "LETTER"
        /\ (store.mode # "ENDLESS" /\ store'.mode = "ENDLESS")
           => /\ world'.nextPortalDistance >= world'.distanceTraveled + 350000
              /\ world'.nextRampDistance >= world'.distanceTraveled + 80000 ]_vars

\* the run went from Story to Endless with its last letter (still in the
\* registry, collected) and the planner has pushed a wave since
C17_Witness ==
    /\ store.mode = "ENDLESS"
    /\ \E i \in DOMAIN world.objects :
          world.objects[i].type = "LETTER" /\ ~world.objects[i].active
    /\ Planned # {}

\* the entities of a type that the planner of the last tick pushed
PlannedOf(type) ==
    { i \in DOMAIN world.plan.objects : world.plan.objects[i].type = type }

\* 150 x 1.5^(N-1) in thousandths, a whole number for N <= 5
Interval(N) == (150000 * 3^(N - 1)) \div 2^(N - 1)

\* a step that is a tick of the simulation
Tick == lastOp'.op = "frame" /\ store.status = "PLAYING"

\* a tick in which the distance has reached the ramp threshold in Endless
Ramp == Tick /\ store.mode = "ENDLESS" /\ world'.distanceTraveled >= world.nextRampDistance

\* C18: a tick in Endless mode in which the distance has reached the ramp
\* threshold moves the threshold on by 80 and sets the base speed to
\* min(3 x RUN_SPEED_BASE, speed + 0.03 x RUN_SPEED_BASE) (a hit that ends
\* the run in the same tick sets it to 0); the step does not lower the speed
\* nor leave it above 67.5; no other tick moves the threshold, a tick in
\* Story mode changes the speed only by collecting a letter.
C18_EndlessRamp ==
    [][ /\ Ramp => /\ world'.nextRampDistance = world.nextRampDistance + 80000
                   /\ IF store'.status = "GAME_OVER" THEN store'.speed = 0
                      ELSE /\ store'.speed = Min(3 * RUN_SPEED_BASE, store.speed + 675)
                           /\ store'.speed >= store.speed
                           /\ store'.speed <= 67500
        /\ (Tick /\ ~Ramp)
              => /\ \/ world'.nextRampDistance = world.nextRampDistance
                    \/ store.mode # "ENDLESS" /\ store'.mode = "ENDLESS"
                 /\ \/ store'.speed = store.speed
                    \/ store'.status = "GAME_OVER" /\ store'.speed = 0
                    \/ /\ store.mode = "STORY"
                       /\ \E e \in Entries' : e.type = "LETTER" /\ e.effect = "collect"
        /\ store'.mode = "ENDLESS" => store'.speed <= 3 * RUN_SPEED_BASE ]_vars

\* a ramp step at the cap: the speed was 67.5 and stays 67.5, the threshold
\* has moved on
C18_Witness ==
    /\ lastOp.op = "frame"
    /\ store.mode = "ENDLESS" /\ store.status = "PLAYING"
    /\ store.speed = 3 * RUN_SPEED_BASE
    /\ world.nextRampDistance > world.distanceTraveled + 70000
    /\ world.distanceTraveled > 6000000

\* C22: getLetterInterval(N) = 150 x 1.5^(N-1) for the levels N = 1..5 (150,
\* 225, 337.5 for the levels 1..3 of the game), and a tick at level N in
\* which the planner pushes a letter moves nextLetterDistance on by exactly
\* that interval (the schedule a level-up or the Endless transition sets
\* after the tick apart).
C22_LetterInterval ==
    [][ /\ \A N \in 1..5 : getLetterInterval(N) * 2^(N - 1) = 150000 * 3^(N - 1)
        /\ <<getLetterInterval(1), getLetterInterval(2), getLetterInterval(3)>>
              = <<150000, 225000, 337500>>
        /\ (Tick /\ PlannedOf("LETTER")' # {})
              => /\ world'.plan.level = store.level
                 /\ world'.plan.nextLetterDistance
                       = world.nextLetterDistance + Interval(store.level)
                 /\ (store'.level = store.level /\ store'.mode = store.mode)
                       => world'.nextLetterDistance
                             = world.nextLetterDistance + Interval(store.level) ]_vars

\* the planner pushed a letter at level 3 and the schedule moved on by 337.5
C22_Witness ==
    /\ lastOp.op = "frame"
    /\ store.level = 3 /\ store.mode = "STORY"
    /\ PlannedOf("LETTER") # {}
    /\ world.nextLetterDistance = 4505000 + 337500

\* the z of the non-missile entities the loop of the last tick kept
KeptZ == { e.newZ : e \in { k \in Entries : k.kept /\ k.type # "MISSILE" } }

\* C23: the planner creates entities only in a tick in which furthestZ > -120,
\* furthestZ being the least z of the kept non-missile entities (-20 if there
\* is none); what it creates is at z = min(furthestZ - minGap, -120), with
\* minGap = min(30, baseGap + effectiveSpeed x gapFactor) (13 and 0.22 in
\* Endless, 14 and 0.26 in Story), the Endless portal 35 farther: not nearer
\* than the spawn horizon and at least minGap beyond every kept non-missile
\* entity.
C23_SpawnBehindHorizon ==
    [][ Tick =>
          LET inEndless == store.mode = "ENDLESS"
              effectiveSpeed == (store.speed * store.speedMultiplier) \div 10000
              gap == Min(30000, (IF inEndless THEN 13000 ELSE 14000)
                                + (effectiveSpeed * (IF inEndless THEN 22 ELSE 26)) \div 100)
              furthest == IF KeptZ' = {} THEN -20000
                          ELSE CHOOSE z \in KeptZ' : \A y \in KeptZ' : z <= y
              pushed == world'.plan.objects
          IN  /\ pushed # << >> => furthest > -SPAWN_DISTANCE
              /\ \A i \in DOMAIN pushed :
                    /\ pushed[i].z = Min(furthest - gap, -SPAWN_DISTANCE)
                                     - (IF pushed[i].type = "SHOP_PORTAL" THEN 35000 ELSE 0)
                    /\ pushed[i].z <= -SPAWN_DISTANCE
                    /\ \A z \in KeptZ' : pushed[i].z <= z - gap
                    /\ pushed[i].active ]_vars

\* in Endless the planner pushed a portal and a wave, a gap and 35 units more
\* than a gap behind the entity the loop had kept
C23_Witness ==
    /\ lastOp.op = "frame"
    /\ KeptZ # {}
    /\ PlannedOf("SHOP_PORTAL") # {}
    /\ \E i \in DOMAIN world.plan.objects, z \in KeptZ :
          /\ world.plan.objects[i].type # "SHOP_PORTAL"
          /\ world.plan.objects[i].z = z - world.plan.minGap
          /\ world.plan.objects[i].z < -SPAWN_DISTANCE

\* a tick in which a letter is due and the planner has a spawn opportunity
LetterTick ==
    /\ Tick
    /\ store.mode = "STORY"
    /\ world'.distanceTraveled >= world.nextLetterDistance
    /\ \A z \in KeptZ' : z > -SPAWN_DISTANCE

\* what the planner does in such a tick, seen from the list of collected
\* letters given
LetterBranch(collectedLetters) ==
    LET pushed == world'.plan.objects
    IN  /\ Len(pushed) = 1
        /\ IF \E i \in 0..5 : ~includes(collectedLetters, i)
           THEN /\ pushed[1].type = "LETTER"
                /\ pushed[1].targetIndex \in 0..5
                /\ ~includes(collectedLetters, pushed[1].targetIndex)
                /\ world'.plan.nextLetterDistance
                      = world.nextLetterDistance + Interval(store.level)
           ELSE /\ pushed[1].type = "GEM"
                /\ world'.plan.nextLetterDistance = world.nextLetterDistance

\* with the list of the render the tick runs in, the letter branch is as
\* described
C24_LetterFromRenderedList ==
    [][ LetterTick => LetterBranch(store.collectedLetters) ]_vars

\* C24: when a letter is due (mode Story, distance >= nextLetterDistance) in
\* a tick with a spawn opportunity, the planner creates exactly one letter
\* whose targetIndex is not in collectedLetters at that moment (the store's
\* list when the planner runs) and moves nextLetterDistance on by the
\* level's interval, or exactly one plain gem, the schedule unmoved, when
\* all six indices are collected; it creates no obstacle, alien or power-up.
C24_DueLetterIsUncollected ==
    [][ LetterTick => LetterBranch(store'.collectedLetters) ]_vars

\* the planner of the last tick was in its letter branch and pushed the
\* letter (or the plain gem that stands in for it)
LetterOut == world.plan.letterDue /\ world.plan.objects # << >>

\* a letter is due in a run that is Playing in Story mode with positive speed
DueLetter ==
    /\ store.status = "PLAYING" /\ store.mode = "STORY"
    /\ store.speed * store.speedMultiplier > 0
    /\ world.distanceTraveled >= world.nextLetterDistance

\* C25: a letter that is due in Story mode, in a run that is Playing with
\* positive speed, is eventually out (or the run has stopped Playing): the
\* condition furthestZ > -120 does not hold a due letter back for ever.
C25_DueLetterIsSpawned ==
    DueLetter ~> (LetterOut \/ store.status # "PLAYING")

\* the letter came out after the planner had been held back for more than 5
\* units past the letter's schedule
C25_Witness ==
    /\ lastOp.op = "frame"
    /\ store.status = "PLAYING"
    /\ PlannedOf("LETTER") # {}
    /\ world.distanceTraveled
          > world.plan.nextLetterDistance - Interval(store.level) + 5000

\* what the loop of the last tick kept, by the log of the tick
KeptEntries == { e \in Entries : e.kept }

\* the entity of the registry with the id given is as the log entry e left it
AsLeft(e) ==
    \E i \in DOMAIN world.objects :
        /\ world.objects[i].id = e.id
        /\ world.objects[i].type = e.type
        /\ world.objects[i].z = e.newZ
        /\ world.objects[i].x = e.x
        /\ world.objects[i].y = e.y
        /\ world.objects[i].active = e.active
        /\ world.objects[i].effects = e.effects

\* C26: a level-up to a level L > 1 while Playing drops every entity with
\* z <= -80 (what the planner pushed in the same tick included), keeps every
\* entity with z > -80 as it was, adds exactly one active shop portal, at
\* x = 0 and z = -100, and sets nextLetterDistance to distanceTraveled - 120
\* + interval(L).
C26_LevelUpSoftReset ==
    [][ (Tick /\ store'.level # store.level /\ store'.level > 1
              /\ store'.status = "PLAYING")
          => LET objs == world'.objects
                 n == Len(objs)
             IN  /\ n >= 1
                 /\ objs[n].type = "SHOP_PORTAL" /\ objs[n].active
                 /\ objs[n].z = -100000 /\ objs[n].x = 0
                 /\ \A e \in Entries' : objs[n].id # e.id
                 /\ \A i \in 1..(n - 1) :
                       /\ objs[i].z > -80000
                       /\ objs[i].id # objs[n].id
                       /\ objs[i].type = "MISSILE"
                             \/ \E e \in KeptEntries' : e.id = objs[i].id
                 /\ \A e \in KeptEntries' :
                       IF e.newZ > -80000 THEN AsLeft(e)' ELSE ~Registered(e.id)'
                 /\ world'.nextLetterDistance
                       = world'.distanceTraveled - SPAWN_DISTANCE + Interval(store'.level) ]_vars

\* a level-up to level 2 that dropped an entity behind -80 and kept one
\* before it
C26_Witness ==
    /\ lastOp.op = "frame"
    /\ store.level = 2 /\ world.prevLevel = 2 /\ store.status = "PLAYING"
    /\ \E e \in Entries : e.type = "LETTER" /\ e.effect = "collect"
    /\ \E e \in KeptEntries : e.newZ <= -80000 /\ ~Registered(e.id)
    /\ \E e \in KeptEntries : e.newZ > -80000 /\ e.newZ < 0 /\ Registered(e.id)
    /\ \E i \in DOMAIN world.objects :
          world.objects[i].type = "SHOP_PORTAL" /\ world.objects[i].z = -100000

\* the log entries of the portals that were active and, after the move,
\* within 2 units of the player's z
PortalsAtPlayer ==
    { e \in Entries : e.type = "SHOP_PORTAL" /\ e.wasActive /\ Abs(e.newZ) < 2000 }

LanesOf(type) == { world.plan.objects[i].x : i \in PlannedOf(type) }

\* C28: the obstacles (one to three) or the aliens (one or two) of one spawn
\* event are in pairwise distinct lanes, every lane is one of the lanes
\* -floor(laneCount/2) .. floor(laneCount/2), and no more entities are placed
\* than there are lanes.
C28_WaveLanesDistinct ==
    [][ Tick =>
          LET valid == { lane * LANE_WIDTH : lane \in Lanes(store.laneCount) }
              obstacles == PlannedOf("OBSTACLE")'
              aliens == PlannedOf("ALIEN")'
          IN  /\ \A i \in DOMAIN world'.plan.objects :
                    world'.plan.objects[i].type # "SHOP_PORTAL"
                       => world'.plan.objects[i].x \in valid
              /\ Cardinality(obstacles) <= 3 /\ Cardinality(aliens) <= 2
              /\ obstacles = {} \/ aliens = {}
              /\ Cardinality(LanesOf("OBSTACLE")') = Cardinality(obstacles)
              /\ Cardinality(LanesOf("ALIEN")') = Cardinality(aliens)
              /\ Cardinality(obstacles) <= Cardinality(valid)
              /\ Cardinality(aliens) <= Cardinality(valid) ]_vars

\* three spikes in the three lanes of a level-1 run
C28_Witness ==
    /\ lastOp.op = "frame"
    /\ store.laneCount = 3
    /\ Cardinality(PlannedOf("OBSTACLE")) = 3
    /\ LanesOf("OBSTACLE") = {-LANE_WIDTH, 0, LANE_WIDTH}

\* two aliens in two of the seven lanes, the outermost one among them
C28_WitnessAliens ==
    /\ lastOp.op = "frame"
    /\ store.laneCount = 7
    /\ Cardinality(LanesOf("ALIEN")) = 2
    /\ 3 * LANE_WIDTH \in LanesOf("ALIEN")

\* the aliens and the missiles of the registry
AliensAndMissiles ==
    { i \in DOMAIN world.objects : world.objects[i].type \in {"ALIEN", "MISSILE"} }

\* C29: the planner creates no alien in a tick rendered at level 1, and
\* while the level is 1 the registry holds no alien and no missile.
C29_NoAliensAtLevelOne ==
    [][ /\ (Tick /\ store.level = 1) => PlannedOf("ALIEN")' = {}
        /\ store.level = 1 => AliensAndMissiles = {}
        /\ store'.level = 1 => AliensAndMissiles' = {} ]_vars

\* a tick at level 1 in which the planner drew the obstacle branch
C29_Witness ==
    /\ lastOp.op = "frame"
    /\ store.level = 1
    /\ store.status = "PLAYING"
    /\ PlannedOf("OBSTACLE") # {}

\* a new run at level 1, the registry emptied by the effect of the render
C29_WitnessRestart ==
    /\ lastOp.op \in {"startGame", "restartGame"}
    /\ store.level = 1
    /\ world.objects = << >>

----------------------------------------------------------------------------
(* Properties of the timed buffs (SpecBuffs) *)

\* the buffs of the variant that last for a time
TimedBuffs ==
    IF store.variant = 1 THEN PowerUpTypesV1 ELSE PowerUpTypesV2 \ {"SHIELD"}

\* the buff of power-up p is in effect
BuffOn(p) ==
    CASE p = "MAGNET" -> store.isMagnetActive
      [] p = "SHIELD" -> store.isShieldActive
      [] p = "REVERSE" -> store.isControlsReversed
      [] p = "SLOWMO" -> store.isSlowMoActive
      [] p = "INVERT" -> store.isControlsInverted
      [] p \in {"SCOREX2", "SCORE_X2"} -> store.scoreMultiplier = 2
      [] p = "SLOW" -> store.speedMultiplier \in {7500, 9375}
      [] p = "BOOST" -> store.speedMultiplier \in {12500, 9375}
      [] OTHER -> FALSE

\* the end of the duration of the latest application of p
Expiry(p) == store.clock.applied[p] + BuffMs(p)

\* the delay of the timeout that ends the buff after its expiry
Slack(p) == IF p \in {"SLOW", "BOOST"} THEN 10 ELSE 0

\* no timeout is waiting to run
Settled == Due(store) = {} /\ ~speedTimerDue(store)

BuffFollowsLatest ==
    \A p \in TimedBuffs :
        IF store.clock.applied[p] < 0 THEN ~BuffOn(p)
        ELSE /\ store.clock.now < Expiry(p) => BuffOn(p)
             /\ (Settled /\ store.clock.now >= Expiry(p) + Slack(p)) => ~BuffOn(p)

C30_WitnessExpired ==
    \E p \in TimedBuffs :
        /\ store.clock.applied[p] >= 0
        /\ store.clock.now >= Expiry(p)
        /\ Settled
        /\ ~BuffOn(p)

----------------------------------------------------------------------------
(* Properties of the immortality ability (SpecImmortal) *)

\* the end of the 5 seconds of the latest activation
ImmortalEnd == store.clock.applied["IMMORTAL"] + 5000

ImmortalOwnedAndTimed ==
    store.isImmortalityActive =>
        /\ store.hasImmortality
        /\ store.clock.applied["IMMORTAL"] >= 0
        /\ store.clock.now <= ImmortalEnd
        /\ [p |-> "IMMORTAL", due |-> ImmortalEnd] \in store.clock.timeouts

ImmortalStep ==
    /\ lastOp'.op = "activateImmortality" =>
          IF store.hasImmortality /\ ~store.isImmortalityActive
          THEN /\ store'.isImmortalityActive
               /\ store'.clock.applied["IMMORTAL"] = store.clock.now
               /\ [store' EXCEPT !.isImmortalityActive = FALSE] =
                     [store EXCEPT !.immortalityTimeouts = @ + 1,
                                   !.clock.timeouts = @ \cup { [p |-> "IMMORTAL", due |-> store.clock.now + 5000] },
                                   !.clock.applied["IMMORTAL"] = store.clock.now]
          ELSE store' = store
    /\ (store.isImmortalityActive /\ ~store'.isImmortalityActive) =>
          \/ lastOp'.op \in {"startGame", "restartGame"}
          \/ lastOp'.op = "immortalityTimeout" /\ store.clock.now >= ImmortalEnd

\* C31: activateImmortality changes the store only when the ability is
\* owned and not active; it then sets isImmortalityActive, which the timeout
\* clears 5000 ms later and nothing but a new run clears before; an active
\* immortality is owned (bought in the run), and it eventually ends.
C31_ImmortalityGatedAndEnds ==
    /\ []ImmortalOwnedAndTimed
    /\ [][ImmortalStep]_vars
    /\ store.isImmortalityActive ~> ~store.isImmortalityActive

\* the timeout has ended an immortality 5000 ms after its activation
C31_Witness ==
    /\ lastOp.op = "immortalityTimeout"
    /\ store.hasImmortality
    /\ ~store.isImmortalityActive
    /\ store.clock.now = ImmortalEnd

\* activateImmortality was called without the ability and changed nothing
C31_WitnessRefused ==
    /\ lastOp.op = "activateImmortality"
    /\ ~store.hasImmortality
    /\ ~store.isImmortalityActive

----------------------------------------------------------------------------
(* Properties of the jump (Spec) *)

JumpsBounded ==
    /\ player.jumpsPerformed \in 0..(IF store.hasDoubleJump THEN 2 ELSE 1)
    /\ player.isJumping <=> player.jumpsPerformed > 0
    /\ ~player.isJumping => player.y = 0

JumpStep ==
    /\ lastOp'.op = "triggerJump" =>
          LET maxJumps == IF store.hasDoubleJump THEN 2 ELSE 1
          IN  IF ~player.isJumping
              THEN player' = [player EXCEPT !.isJumping = TRUE, !.jumpsPerformed = 1,
                                            !.velocityY = JUMP_FORCE]
              ELSE IF player.jumpsPerformed < maxJumps
              THEN player' = [player EXCEPT !.jumpsPerformed = @ + 1,
                                            !.velocityY = JUMP_FORCE]
              ELSE player' = player
    /\ (lastOp'.op = "frame" /\ player.isJumping /\ store.status \in {"PLAYING", "SHOP"}) =>
          \E delta \in Deltas :
              IF player.y + MulDiv(player.velocityY, delta, 1000) <= 0
              THEN player'.y = 0 /\ player'.jumpsPerformed = 0 /\ ~player'.isJumping
              ELSE /\ player'.y = player.y + MulDiv(player.velocityY, delta, 1000)
                   /\ player'.jumpsPerformed = player.jumpsPerformed
                   /\ player'.isJumping

\* C32: jumpsPerformed is at most 1 without the double jump and at most 2
\* with it; triggerJump on the ground starts a jump with jumpsPerformed = 1,
\* in the air it is accepted only while jumpsPerformed < maxJumps, and the
\* frame that brings y to 0 or below sets y = 0, jumpsPerformed = 0 and
\* clears the airborne flag.
C32_JumpsBounded ==
    /\ []JumpsBounded
    /\ [][JumpStep]_vars

\* a second jump in the air, with the double jump owned
C32_Witness ==
    /\ lastOp.op = "triggerJump"
    /\ store.hasDoubleJump
    /\ player.jumpsPerformed = 2

\* a jump in the air refused without the double jump
C32_WitnessRefused ==
    /\ lastOp.op = "triggerJump"
    /\ ~store.hasDoubleJump
    /\ player.isJumping /\ player.jumpsPerformed = 1 /\ player.velocityY < JUMP_FORCE

----------------------------------------------------------------------------
(* The end of a run (Spec) *)

\* C33: in every state GAME_OVER comes with speed 0 and lives 0, and
\* lives 0 comes with GAME_OVER, also at the end of the tick in which the
\* last life was lost.
C33_GameOverIffNoLives ==
    /\ store.status = "GAME_OVER" => store.speed = 0 /\ store.lives = 0
    /\ store.lives = 0 => store.status = "GAME_OVER"

\* the last life was lost at one entity of the tick and a gem was collected
\* at a later one
C33_Witness ==
    /\ lastOp.op = "frame"
    /\ store.status = "GAME_OVER" /\ store.lives = 0 /\ store.speed = 0
    /\ \E i, j \in DOMAIN world.trace :
          /\ i < j
          /\ world.trace[i].damaged
          /\ world.trace[j].type = "GEM" /\ world.trace[j].effect = "collect"
    /\ store.gemsCollected > 0


ActivePortals ==
    { i \in DOMAIN world.objects :
         world.objects[i].type = "SHOP_PORTAL" /\ world.objects[i].active }

\* the portals the step has put into the registry
NewPortals ==
    { i \in DOMAIN world'.objects :
         /\ world'.objects[i].type = "SHOP_PORTAL"
         /\ world'.objects[i].id >= world.nextId }

\* C19: the registry never holds more than one active portal; the planner
\* pushes a portal only in a tick in Endless mode in which the distance has
\* reached nextPortalDistance and no active portal is kept, and then adds
\* 520 to nextPortalDistance (the only other new portal is the one the
\* level-up effect puts at z = -100); without an issuance the schedule moves
\* only at the transition into Endless or at a restart.
C19_OnePortalAtATime ==
    [][ /\ Cardinality(ActivePortals') <= 1
        /\ \A i \in NewPortals :
              \/ /\ store'.level = store.level + 1
                 /\ world'.objects[i].z = -100000
              \/ /\ Tick
                 /\ store.mode = "ENDLESS"
                 /\ world'.distanceTraveled >= world.nextPortalDistance
                 /\ world'.objects[i].z <= -SPAWN_DISTANCE - 35000
                 /\ world'.nextPortalDistance = world.nextPortalDistance + 520000
                 /\ \A j \in DOMAIN world'.objects :
                       (world'.objects[j].type = "SHOP_PORTAL" /\ world'.objects[j].active)
                          => j = i
        /\ world'.nextPortalDistance # world.nextPortalDistance
              => \/ \E i \in NewPortals : world'.objects[i].z <= -SPAWN_DISTANCE - 35000
                 \/ store.mode # "ENDLESS" /\ store'.mode = "ENDLESS"
                 \/ lastOp'.op = "restartGame" ]_vars

\* the planner has offered a portal in an Endless tick and moved the
\* schedule on
C19_Witness ==
    /\ lastOp.op = "frame"
    /\ store.mode = "ENDLESS"
    /\ \E i \in ActivePortals : i \in Planned /\ world.objects[i].z <= -SPAWN_DISTANCE - 35000
    /\ world.nextPortalDistance > world.distanceTraveled + 500000

\* C20: after every tick no entity of the registry, active or inactive and
\* of whatever type, has z > REMOVE_DISTANCE (20); nor has any at any other
\* moment, the positions changing in ticks only.
C20_NothingBehindRemoveDistance ==
    /\ \A i \in DOMAIN world.objects : world.objects[i].z <= REMOVE_DISTANCE
    /\ \A e \in Entries : e.newZ > REMOVE_DISTANCE => ~Registered(e.id)

\* a tick took two entities past the threshold, one collected earlier and
\* one still active, and dropped both
C20_Witness ==
    \E e, f \in Entries :
        /\ e.wasActive /\ ~f.wasActive
        /\ e.prevZ <= REMOVE_DISTANCE /\ e.newZ > REMOVE_DISTANCE
        /\ f.prevZ <= REMOVE_DISTANCE /\ f.newZ > REMOVE_DISTANCE
        /\ ~Registered(e.id) /\ ~Registered(f.id)
        /\ world.objects # << >>

----------------------------------------------------------------------------
(* The passage of a shop portal (Spec) *)

\* C34: a tick leaves no active shop portal more than 2 units behind the
\* player: a portal that was ahead of the player has had openShop called
\* (and is no longer active) before it is that far behind.
C34_PortalNotPassed ==
    [][ Tick => \A i \in ActivePortals' : world'.objects[i].z <= 2000 ]_vars

\* ---------------------------------------------------------------------
\* The window after a hit (SpecHit): frames on the clock, Date.now() read
\* by the Player's frame callback and by checkHit, followed until the
\* planner next runs
\* ---------------------------------------------------------------------

INVINCIBILITY_MS == 1500
FrameTimes == {50, 100}

HitScenes ==
    { scene(started(2), PlayerInit,
            << GameObject(0, "OBSTACLE", 0, 800, -1000),
               GameObject(0, "MISSILE", 0, 1000, -1500),
               GameObject(0, "OBSTACLE", 0, 800, z),
               gem(0, 1200, -139500, 50) >>, 400000, 450000)
        : z \in {-21000, -12000} }

InitHit ==
    /\ \E g \in HitScenes :
          /\ store = g.store
          /\ player = g.player
          /\ world = g.world
    /\ steps = 0
    /\ lastOp = [op |-> "init", arg |-> "", called |-> FALSE]

HitFrame ==
    /\ ticking(store)
    /\ \E delta \in FrameTimes :
          LET now == store.clock.now + delta
          IN  FrameAt([store EXCEPT !.clock.now = now], MaxWave, delta,
                      player.isInvincible
                          /\ now - player.lastDamageTime > INVINCIBILITY_MS)
    /\ ~world'.plan.ran
    /\ steps' = steps
    /\ lastOp' = [op |-> "frame", arg |-> "", called |-> TRUE]

SpecHit == InitHit /\ [][HitFrame]_vars

\* the entities of the last tick whose signal called takeDamage
Damaging == { i \in DOMAIN world.trace : world.trace[i].damaged }

HitStep ==
    Tick =>
       /\ Cardinality(Damaging') <= 1
       /\ store'.lives >= store.lives - 1
       /\ store'.lives < store.lives => Damaging' # {}
       /\ Damaging' # {} =>
             /\ player'.lastDamageTime = store'.clock.now
             /\ \/ player.lastDamageTime = 0 /\ ~player.isInvincible
                \/ store'.clock.now - player.lastDamageTime > INVINCIBILITY_MS
       /\ (/\ player.lastDamageTime > 0
           /\ store'.clock.now - player.lastDamageTime <= INVINCIBILITY_MS) =>
             /\ Damaging' = {}
             /\ store'.lives = store.lives

\* C35: a tick calls takeDamage for at most one of its player-hit signals
\* and takes at most one life; a signal that calls it starts a window, and
\* no signal of a tick within 1500 ms of it calls takeDamage or takes a
\* life, so two losses of a life are more than 1500 ms apart
C35_HitWindow == [][HitStep]_vars

\* two damage sources hit in one tick, one life is taken
C35_Witness ==
    /\ lastOp.op = "frame"
    /\ Cardinality({ i \in DOMAIN world.trace : world.trace[i].signals = 1 }) = 2
    /\ Cardinality(Damaging) = 1
    /\ store.lives = started(2).store.lives - 1

\* a signal exactly 1500 ms after the one that took a life is ignored
C35_WitnessIgnored ==
    /\ lastOp.op = "frame"
    /\ \E i \in DOMAIN world.trace : world.trace[i].signals = 1
    /\ Damaging = {}
    /\ player.isInvincible
    /\ store.clock.now - player.lastDamageTime = INVINCIBILITY_MS
    /\ store.lives = started(2).store.lives - 1

\* a signal later than that takes the next life
C35_WitnessNextWindow ==
    /\ lastOp.op = "frame"
    /\ Damaging # {}
    /\ store.clock.now - INVINCIBILITY_MS > 100
    /\ store.lives = started(2).store.lives - 2

\* ---------------------------------------------------------------------
\* The distance shown after a run (Spec)
\* ---------------------------------------------------------------------

RunEnds ==
    /\ store'.status \in {"GAME_OVER", "VICTORY"}
    /\ store.status # store'.status

\* C36 (as stated): whenever status becomes GAME_OVER or VICTORY the store's
\* distance is the whole units of the distance travelled in the run, also
\* when the same update changes the level or the mode
C36_DistanceAtEnd ==
    [][ RunEnds => store'.distance = world'.distanceTraveled \div 1000 ]_vars

\* what holds: the distance is stored unless the same update enters Endless
C36_DistanceUnlessEndlessEntered ==
    [][ (RunEnds /\ ~(store'.mode = "ENDLESS" /\ store.mode # "ENDLESS"))
            => store'.distance = world'.distanceTraveled \div 1000 ]_vars

\* ---------------------------------------------------------------------
\* Frames outside a run (Spec)
\* ---------------------------------------------------------------------

IdleTick == lastOp'.op = "frame" /\ store.status # "PLAYING"

\* C37: a tick while status is not PLAYING leaves the registry (positions,
\* active flags, members), the identifiers, distanceTraveled and the
\* letter, portal and ramp schedules as they were, calls no store
\* operation and sends no signal
C37_IdleTickChangesNothing ==
    [][ IdleTick =>
          /\ store' = store
          /\ world'.objects = world.objects
          /\ world'.nextId = world.nextId
          /\ world'.distanceTraveled = world.distanceTraveled
          /\ world'.nextLetterDistance = world.nextLetterDistance
          /\ world'.nextPortalDistance = world.nextPortalDistance
          /\ world'.nextRampDistance = world.nextRampDistance
          /\ world'.trace = << >>
          /\ world'.plan = noPlan ]_vars

\* a frame with the shop open, a portal and a wave in the registry and the
\* speed of the run still in the store
C37_Witness ==
    /\ lastOp.op = "frame"
    /\ store.status = "SHOP"
    /\ store.speed > 0
    /\ world.trace = << >>
    /\ \E i \in DOMAIN world.objects : world.objects[i].active

\* a frame after the run has ended
C37_WitnessGameOver ==
    /\ lastOp.op = "frame"
    /\ store.status = "GAME_OVER"
    /\ world.trace = << >>
    /\ world.objects # << >>

\* a frame before the first run
C37_WitnessMenu ==
    /\ lastOp.op = "frame"
    /\ store.status = "MENU"

\* ---------------------------------------------------------------------
\* The score as the shop's currency (SpecStore)
\* ---------------------------------------------------------------------

ScoreStep ==
    /\ lastOp'.op = "buyItem" =>
          \E item \in SHOP_ITEMS :
             /\ item.id = lastOp'.arg
             /\ IF buyItemReturns(store, item.id, item.cost)
                THEN store.score >= item.cost /\ store'.score = store.score - item.cost
                ELSE store'.score = store.score
    /\ lastOp'.op \in {"startGame", "restartGame"} => store'.score = 0
    /\ store'.score < store.score =>
          lastOp'.op \in {"buyItem", "startGame", "restartGame"}

\* C38 (as stated): only buyItem decreases score
C38_OnlyPurchasesDecreaseScore ==
    [][ store'.score < store.score => lastOp'.op = "buyItem" ]_vars

\* C38 (amended): score is never negative; buyItem takes the cost off the
\* score exactly when it returns true, which needs score >= cost, and leaves
\* the score alone otherwise; startGame and restartGame set score to 0; no
\* other operation decreases score
C38_ScoreNeverNegative == [](store.score >= 0) /\ [][ScoreStep]_vars

\* a purchase that took the whole score
C38_Witness ==
    /\ lastOp.op = "buyItem"
    /\ store.score = 0
    /\ store.hasDoubleJump \/ store.hasImmortality

\* a purchase refused for want of score
C38_WitnessRefused ==
    /\ lastOp.op = "buyItem"
    /\ lastOp.arg = "IMMORTAL"
    /\ ~store.hasImmortality
    /\ store.score > 0

\* ---------------------------------------------------------------------
\* The pointer handlers of the Player (SpecPointer): one pointer, its
\* events at positions in pixels.  lastOp also counts the calls of moveLane
\* and triggerJump since the last pointerdown and whether the pointer is
\* down.
\* ---------------------------------------------------------------------

ClientXs == {100, 105, 140, 180}
ClientYs == {100, 105, 50}

onDown(pl, r, x, y, onButton) ==
    IF onButton \/ r.status # "PLAYING" THEN pl
    ELSE [pl EXCEPT !.pointerDown = TRUE, !.jumpTriggered = FALSE,
                    !.startX = x, !.startY = y]

\* what onMove does: the player after it and the calls it made
onMove(pl, r, x, y, onButton) ==
    LET dx == x - pl.startX
        dy == y - pl.startY
        lane == Abs(dx) > Abs(dy) /\ Abs(dx) > 38
        jump == ~pl.jumpTriggered /\ Abs(dy) > Abs(dx) /\ dy < -46
        pl1 == IF lane
               THEN [moveLane(pl, r, IF dx > 0 THEN 1 ELSE -1) EXCEPT !.startX = x]
               ELSE pl
        pl2 == IF jump THEN [triggerJump(pl1, r) EXCEPT !.jumpTriggered = TRUE] ELSE pl1
    IN  IF ~pl.pointerDown \/ onButton \/ r.status # "PLAYING"
        THEN [player |-> pl, moves |-> 0, jumps |-> 0]
        ELSE [player |-> pl2, moves |-> IF lane THEN 1 ELSE 0,
              jumps |-> IF jump THEN 1 ELSE 0]

\* what onUp does: the player and the store after it, and whether it called
\* activateImmortality
onUp(pl, s, x, y, onButton) ==
    LET dx == x - pl.startX
        dy == y - pl.startY
        tap == Abs(dx) < 10 /\ Abs(dy) < 10 /\ ~onButton
    IN  IF ~pl.pointerDown THEN [player |-> pl, store |-> s, called |-> FALSE]
        ELSE [player |-> [pl EXCEPT !.pointerDown = FALSE],
              store |-> IF tap THEN activateImmortality(s) ELSE s,
              called |-> tap]

PointerSeeds ==
    LET rich == collectGems(started(2), 40)
        inShop == call(rich, openShop(rich.store))
        immortal == call(inShop, buyItem(inShop.store, "IMMORTAL", 3000))
        both == call(immortal, buyItem(immortal.store, "DOUBLE_JUMP", 1000))
    IN  { started(2), call(both, closeShop(both.store)), inShop }

InitPointer ==
    /\ \E g \in PointerSeeds :
          /\ store = g.store
          /\ player = g.player
          /\ world = g.world
    /\ steps = 0
    /\ lastOp = [op |-> "init", arg |-> "", called |-> FALSE,
                 down |-> FALSE, moves |-> 0, jumps |-> 0]

PointerEvent(op, called, s2, pl2, down, moves, jumps) ==
    LET g == render(s2, pl2, [world EXCEPT !.trace = << >>, !.plan = noPlan])
    IN  /\ store' = g.store
        /\ player' = g.player
        /\ world' = g.world
        /\ steps' = steps
        /\ lastOp' = [op |-> op, arg |-> "", called |-> called, down |-> down,
                      moves |-> Min(moves, 2), jumps |-> Min(jumps, 2)]

PointerDown ==
    /\ ~lastOp.down
    /\ \E x \in ClientXs, y \in ClientYs, onButton \in BOOLEAN :
          PointerEvent("pointerdown", FALSE, store,
                       onDown(player, store, x, y, onButton), TRUE, 0, 0)

PointerMove ==
    \E x \in ClientXs, y \in ClientYs, onButton \in BOOLEAN :
       LET m == onMove(player, store, x, y, onButton)
       IN  PointerEvent("pointermove", m.moves + m.jumps > 0, store, m.player,
                        lastOp.down, lastOp.moves + m.moves, lastOp.jumps + m.jumps)

PointerUp ==
    /\ lastOp.down
    /\ \E x \in ClientXs, y \in ClientYs, onButton \in BOOLEAN :
          LET u == onUp(player, store, x, y, onButton)
          IN  PointerEvent("pointerup", u.called, u.store, u.player,
                           FALSE, lastOp.moves, lastOp.jumps)

\* the shop opens or closes under the pointer
PointerShop ==
    \/ /\ store.status = "PLAYING"
       /\ PointerEvent("openShop", TRUE, openShop(store), player,
                       lastOp.down, lastOp.moves, lastOp.jumps)
    \/ /\ store.status = "SHOP"
       /\ PointerEvent("closeShop", TRUE, closeShop(store), player,
                       lastOp.down, lastOp.moves, lastOp.jumps)

NextPointer ==
    \/ PointerDown
    \/ PointerMove
    \/ PointerUp
    \/ PointerShop

SpecPointer == InitPointer /\ [][NextPointer]_vars

\* C39 (as stated): between a pointerdown and the pointerup triggerJump is
\* called at most once, and the pointerup calls activateImmortality only
\* when neither moveLane nor triggerJump was called since the pointerdown
C39_TapOnlyAfterNothing ==
    /\ [](lastOp.jumps <= 1)
    /\ [][ (lastOp'.op = "pointerup" /\ lastOp'.called) =>
              (lastOp.moves = 0 /\ lastOp.jumps = 0) ]_vars

\* what holds of the jump
C39_OneJumpPerGesture == lastOp.jumps <= 1

\* a swipe that changed the lane and was released where it did: the ability
\* is activated
C39_SwipeActivates ==
    /\ lastOp.op = "pointerup"
    /\ lastOp.called
    /\ lastOp.moves > 0
    /\ store.isImmortalityActive

============================================================================
